---------------------------- MODULE Spec2Model ----------------------------
(***************************************************************************)
(* PersonaPath (yashmogal/personapath-v2): a model of the users table and  *)
(* its authentication paths, the FastAPI route handlers, the skill-gap     *)
(* analysis, the mentor ranking, the career-path search and the source     *)
(* cascade of RAGPipeline.query_documents.                                 *)
(*                                                                         *)
(* SQL statements are modelled by their SQL meaning on tables held as      *)
(* sequences of rows in insertion order.  Strings that the code formats,   *)
(* splits, trims or lower-cases are sequences of one-character strings.    *)
(***************************************************************************)
EXTENDS Integers, Sequences, FiniteSets, TLC

VARIABLES
    users,      \* users table: rows [id, username, password_hash, role]
    userSeq,    \* next value of the users.id SERIAL sequence
    seed,       \* per application: position in AuthManager._create_default_users
    chat,       \* chat_history table: rows [id, user_id, query]
    chatSeq,    \* next value of the chat_history.id SERIAL sequence
    roles,      \* job_roles table: rows [id, title, uploaded_by, skills_required]
    roleSeq,    \* next value of the job_roles.id SERIAL sequence
    indexed,    \* ids of the roles handed to rag_pipeline.process_documents
    loggedIn,   \* ids for which POST /auth/login has succeeded
    last,       \* the last auth / API operation: inputs, pre-state, response
    sk,         \* the last SkillAnalyzer.analyze_skill_gap call
    mt,         \* the last MentorSystem.find_mentors call
    bfs,        \* CareerPlanner._bfs_path_search in progress
    rag,        \* RAGPipeline.query_documents in progress
    cls,        \* the last query classified by both assistants
    mentors,    \* mentors table: rows [id, name], and the next value of its id sequence
    posts,      \* the POST /roles/ requests in flight
    plan,       \* the last CareerPlanner.generate_career_roadmap call
    fast        \* the FastPersonaPath instance: its cache and its reads

vars == <<users, userSeq, seed, chat, chatSeq, roles, roleSeq, indexed, loggedIn, last,
          sk, mt, bfs, rag, cls, mentors, posts, plan, fast>>

\* the tables behind the protected routes
apiTables == <<chat, chatSeq, roles, roleSeq, indexed>>

\* the calls of the core components
calls == <<sk, mt, bfs, rag, cls, mentors, posts, plan, fast>>

(***************************************************************************)
(* Bounds of the model.                                                    *)
(***************************************************************************)
MaxUserId == 5      \* users.id values handed out by the SERIAL sequence
MaxChatId == 2      \* chat_history.id values handed out
MaxRoleId == 1      \* job_roles.id values handed out
MaxFails == 2       \* failed sign-in attempts in a row that are counted
MaxSkills == 2      \* skills written in a role's skills_required
MaxCurrent == 2     \* skills in the current_skills argument
MaxMentors == 3     \* rows of the mentors table
MaxLimit == 2       \* the limit argument of find_mentors
MaxNodes == 3       \* roles of a generated adjacency dictionary

(***************************************************************************)
(* Strings as sequences of characters.                                     *)
(***************************************************************************)
Digits == <<"0", "1", "2", "3", "4", "5", "6", "7", "8", "9">>

RECURSIVE IntToStr(_)
\* str(n) of a non-negative int, as the f-string of login formats it
IntToStr(n) ==
    IF n < 10 THEN <<Digits[n + 1]>>
    ELSE IntToStr(n \div 10) \o <<Digits[(n % 10) + 1]>>

IsDigit(c) == \E i \in 1..10 : Digits[i] = c

DigitVal(c) == (CHOOSE i \in 1..10 : Digits[i] = c) - 1

RECURSIVE StrToNat(_)
StrToNat(s) ==
    IF Len(s) = 0 THEN 0
    ELSE 10 * StrToNat(SubSeq(s, 1, Len(s) - 1)) + DigitVal(s[Len(s)])

\* int(s): the value, or -1 where Python raises ValueError
ParseInt(s) ==
    IF Len(s) > 0 /\ \A i \in 1..Len(s) : IsDigit(s[i]) THEN StrToNat(s) ELSE -1

StartsWith(s, p) == Len(s) >= Len(p) /\ SubSeq(s, 1, Len(p)) = p

RECURSIVE SplitOn(_, _)
\* s.split(c): the pieces of s between the occurrences of the character c
SplitOn(s, c) ==
    IF \A i \in 1..Len(s) : s[i] # c THEN <<s>>
    ELSE LET k == CHOOSE i \in 1..Len(s) : s[i] = c /\ \A j \in 1..(i - 1) : s[j] # c
         IN <<SubSeq(s, 1, k - 1)>> \o SplitOn(SubSeq(s, k + 1, Len(s)), c)

UserPrefix == <<"u", "s", "e", "r", "_">>

(***************************************************************************)
(* Passwords and their SHA-256 digests (first 12 hex digits).              *)
(***************************************************************************)
Passwords == {"admin123", "hr123", "emp123", "admin", "demo123", "secret"}

\* AuthManager._hash_password: hashlib.sha256(password.encode()).hexdigest()
HashPassword(p) ==
    CASE p = "admin123" -> "240be518fabd"
      [] p = "hr123"    -> "070a3b5e8d4b"
      [] p = "emp123"   -> "e03d3ec8d503"
      [] p = "admin"    -> "8c6976e5b541"
      [] p = "demo123"  -> "d3ad9315b7be"
      [] p = "secret"   -> "2bb80d537b1d"


(***************************************************************************)
(* The users table.                                                        *)
(***************************************************************************)
UserRow(id, u, h, r) == [id |-> id, username |-> u, password_hash |-> h, role |-> r]

\* what authenticate_user / get_user_by_username return for no row (None)
NoUser == [id |-> 0, username |-> "", role |-> ""]

\* Variant: the users table declared without UNIQUE on username
UsernameNeverTaken(tbl, u) == FALSE

\* the UNIQUE constraint of users.username: some row already holds u
UsernameTaken(tbl, u) == \E i \in 1..Len(tbl) : tbl[i].username = u

\* INSERT INTO users (username, password_hash, role) VALUES (u, h, r) on the
\* table declared with username UNIQUE NOT NULL: a second row with the same
\* username is refused (IntegrityError) and the table is left as it was.
InsertUser(tbl, id, u, h, r) ==
    IF UsernameTaken(tbl, u) THEN tbl ELSE Append(tbl, UserRow(id, u, h, r))

\* whether that INSERT raises IntegrityError
InsertRaises(tbl, u) == UsernameTaken(tbl, u)

\* Variant: a register_user that overwrites the existing row and reports success
RegisterUserUpsert(tbl, id, u, p, r) ==
    IF \E i \in 1..Len(tbl) : tbl[i].username = u
    THEN [ok |-> TRUE,
          users |-> [i \in 1..Len(tbl) |->
                       IF tbl[i].username = u
                       THEN UserRow(tbl[i].id, u, HashPassword(p), r) ELSE tbl[i]]]
    ELSE [ok |-> TRUE, users |-> Append(tbl, UserRow(id, u, HashPassword(p), r))]

\* AuthManager.register_user (core/auth.py): hash, INSERT, commit -> True;
\* IntegrityError (or any other exception) -> False
RegisterUser(tbl, id, u, p, r) ==
    LET h == HashPassword(p)
    IN  IF InsertRaises(tbl, u)
        THEN [ok |-> FALSE, users |-> tbl]
        ELSE [ok |-> TRUE, users |-> InsertUser(tbl, id, u, h, r)]

\* DatabaseManager.create_user (core/database_pg.py): INSERT, commit -> True;
\* psycopg2.IntegrityError -> False
CreateUser(tbl, id, u, h, r) ==
    IF InsertRaises(tbl, u)
    THEN [ok |-> FALSE, users |-> tbl]
    ELSE [ok |-> TRUE, users |-> InsertUser(tbl, id, u, h, r)]

\* AuthManager.register_user (core/auth_pg.py): hash, then create_user
PgRegisterUser(tbl, id, u, p, r) == CreateUser(tbl, id, u, HashPassword(p), r)

\* SELECT ... FROM users WHERE username = u AND password_hash = h; fetchone()
GetUserByCredentials(tbl, u, h) ==
    LET hits == {i \in 1..Len(tbl) : tbl[i].username = u /\ tbl[i].password_hash = h}
    IN  IF hits = {} THEN NoUser
        ELSE LET i == CHOOSE j \in hits : \A k \in hits : j <= k
             IN  [id |-> tbl[i].id, username |-> tbl[i].username, role |-> tbl[i].role]

\* Variant: an authenticate_user that compares the stored digest with the
\* password as typed
AuthenticateUserPlain(tbl, u, p) == GetUserByCredentials(tbl, u, p)

\* AuthManager.authenticate_user: hash the password, select by both columns
AuthenticateUser(tbl, u, p) == GetUserByCredentials(tbl, u, HashPassword(p))

\* AuthManager.get_user_by_username: SELECT ... WHERE username = u; fetchone()
GetUserByUsername(tbl, u) ==
    LET hits == {i \in 1..Len(tbl) : tbl[i].username = u}
    IN  IF hits = {} THEN NoUser
        ELSE LET i == CHOOSE j \in hits : \A k \in hits : j <= k
             IN  [id |-> tbl[i].id, username |-> tbl[i].username, role |-> tbl[i].role]

\* default_users of AuthManager._create_default_users
DefaultUsers ==
    << [username |-> "admin",      password |-> "admin123", role |-> "Admin"],
       [username |-> "hr_manager", password |-> "hr123",    role |-> "HR Manager"],
       [username |-> "employee",   password |-> "emp123",   role |-> "Employee"] >>

\* demo_users of DatabaseManager._insert_sample_data: the stored digest is the
\* SHA-256 of "admin"
DemoUsers ==
    << [username |-> "demo_employee", password_hash |-> "8c6976e5b541", role |-> "Employee"],
       [username |-> "demo_hr",       password_hash |-> "8c6976e5b541", role |-> "HR Manager"],
       [username |-> "demo_admin",    password_hash |-> "8c6976e5b541", role |-> "Admin"] >>

RECURSIVE InsertDemoUsers(_, _, _)
\* the loop of INSERT ... ON CONFLICT (username) DO NOTHING; every statement
\* draws a value from the id sequence, inserted or not
InsertDemoUsers(tbl, id, k) ==
    IF k > Len(DemoUsers) THEN tbl
    ELSE InsertDemoUsers(
             InsertUser(tbl, id, DemoUsers[k].username, DemoUsers[k].password_hash,
                        DemoUsers[k].role),
             id + 1, k + 1)

(***************************************************************************)
(* The bearer token of the API.                                            *)
(***************************************************************************)
\* login: token = f"user_{user['id']}"
MakeToken(id) == UserPrefix \o IntToStr(id)

\* Variant: a get_current_user that accepts only ids that have signed in
GetCurrentUserSignedIn(token) ==
    IF StartsWith(token, UserPrefix)
    THEN LET n == ParseInt(SplitOn(token, "_")[2])
         IN  IF n < 0 THEN [status |-> 500, user_id |-> -1, authenticated |-> FALSE]
             ELSE IF n \in loggedIn
             THEN [status |-> 200, user_id |-> n, authenticated |-> TRUE]
             ELSE [status |-> 401, user_id |-> -1, authenticated |-> FALSE]
    ELSE [status |-> 401, user_id |-> -1, authenticated |-> FALSE]

\* Variant: a get_current_user that reads one character after the prefix
GetCurrentUserOneDigit(token) ==
    IF StartsWith(token, UserPrefix)
    THEN LET n == IF Len(token) > Len(UserPrefix)
                  THEN ParseInt(<<token[Len(UserPrefix) + 1]>>) ELSE -1
         IN  IF n < 0 THEN [status |-> 500, user_id |-> -1, authenticated |-> FALSE]
             ELSE [status |-> 200, user_id |-> n, authenticated |-> TRUE]
    ELSE [status |-> 401, user_id |-> -1, authenticated |-> FALSE]

\* get_current_user: startswith("user_") -> int(token.split("_")[1]);
\* otherwise 401.  int() raising ValueError is not caught: status 500.
GetCurrentUser(token) ==
    IF StartsWith(token, UserPrefix)
    THEN LET n == ParseInt(SplitOn(token, "_")[2])
         IN  IF n < 0 THEN [status |-> 500, user_id |-> -1, authenticated |-> FALSE]
             ELSE [status |-> 200, user_id |-> n, authenticated |-> TRUE]
    ELSE [status |-> 401, user_id |-> -1, authenticated |-> FALSE]

\* POST /auth/login
LoginResponse(tbl, u, p) ==
    LET user == AuthenticateUser(tbl, u, p)
    IN  IF user # NoUser
        THEN [status |-> 200, token |-> MakeToken(user.id), user |-> user,
              detail |-> <<"bearer">>]
        ELSE [status |-> 401, token |-> <<>>, user |-> NoUser,
              detail |-> <<"Invalid username or password">>]

\* POST /auth/register
RegisterResponse(success) ==
    IF success
    THEN [status |-> 200, detail |-> <<"User registered successfully">>]
    ELSE [status |-> 400, detail |-> <<"Username already exists">>]


(***************************************************************************)
(* Registration, seeding and sign-in as steps on the shared database.      *)
(***************************************************************************)
\* the two entry points that construct AuthManager(db_manager)
Apps == {"api", "streamlit"}

RegUsernames == {"admin", "alice"}
RegPasswords == {"secret"}
RegRoles == {"Employee", "Guest"}
LoginUsernames == {"admin", "alice"}
LoginPasswords == {"admin123", "secret"}

SeedDone(a) == seed[a].idx > Len(DefaultUsers)

\* the record of an operation: its inputs, the tables before it, its response
Idle == [op |-> "none", username |-> "", password |-> "", role |-> "", pre |-> <<>>,
         ok |-> FALSE, user |-> NoUser, status |-> 0, token |-> <<>>, detail |-> <<>>,
         fails |-> 0, uid |-> -1, prechat |-> <<>>, raised |-> "", body |-> "none",
         propagated |-> FALSE]

\* failed sign-in attempts in a row for username u, this one (failed or not) included
FailsAfter(u, failed) ==
    LET before == IF last.op \in {"login", "authenticate"} /\ last.username = u
                     /\ last.user = NoUser
                  THEN last.fails ELSE 0
    IN  IF failed /\ before < MaxFails THEN before + 1 ELSE before

\* _create_default_users, first half of one iteration:
\* if not self.get_user_by_username(username)
SeedCheck(a) ==
    /\ ~SeedDone(a)
    /\ seed[a].phase = "check"
    /\ LET d == DefaultUsers[seed[a].idx]
       IN  IF GetUserByUsername(users, d.username) # NoUser
           THEN seed' = [seed EXCEPT ![a].idx = @ + 1]
           ELSE seed' = [seed EXCEPT ![a].phase = "insert"]
    /\ UNCHANGED <<users, userSeq, apiTables, loggedIn, last, calls>>

\* _create_default_users, second half: self.register_user(username, password, role)
SeedInsert(a) ==
    /\ ~SeedDone(a)
    /\ seed[a].phase = "insert"
    /\ userSeq <= MaxUserId
    /\ LET d == DefaultUsers[seed[a].idx]
           res == RegisterUser(users, userSeq, d.username, d.password, d.role)
       IN  /\ users' = res.users
           /\ last' = [Idle EXCEPT !.op = "seed", !.username = d.username,
                                   !.password = d.password, !.role = d.role,
                                   !.pre = users, !.ok = res.ok]
    /\ userSeq' = userSeq + 1
    /\ seed' = [seed EXCEPT ![a] = [idx |-> @.idx + 1, phase |-> "check"]]
    /\ UNCHANGED <<apiTables, loggedIn, calls>>

\* DatabaseManager.init_database (core/database_pg.py) -> _insert_sample_data:
\* the demo users, in one transaction
\* and then the job roles with uploaded_by = 2 (a foreign key into users): when
\* no user has id 2 that INSERT raises, nothing is committed and the demo
\* users are rolled back with it (the ids drawn stay drawn)
PgInsertSampleData ==
    /\ userSeq + Len(DemoUsers) - 1 <= MaxUserId
    /\ LET t == InsertDemoUsers(users, userSeq, 1)
       IN  users' = IF \E i \in 1..Len(t) : t[i].id = 2 THEN t ELSE users
    /\ userSeq' = userSeq + Len(DemoUsers)
    /\ last' = [Idle EXCEPT !.op = "sample_data", !.pre = users]
    /\ UNCHANGED <<seed, apiTables, loggedIn, calls>>

\* POST /auth/register (api_main.py) and the registration button of app.py:
\* both call auth_manager.register_user and report on its return value
Register(a) ==
    /\ SeedDone(a)
    /\ userSeq <= MaxUserId
    /\ \E u \in RegUsernames, p \in RegPasswords, r \in RegRoles :
         LET res == RegisterUser(users, userSeq, u, p, r)
             rsp == RegisterResponse(res.ok)
         IN  /\ users' = res.users
             /\ last' = [Idle EXCEPT !.op = "register", !.username = u, !.password = p,
                                     !.role = r, !.pre = users, !.ok = res.ok,
                                     !.status = rsp.status, !.detail = rsp.detail]
    /\ userSeq' = userSeq + 1
    /\ UNCHANGED <<seed, apiTables, loggedIn, calls>>

\* AuthManager.register_user of core/auth_pg.py, through create_user
PgRegister ==
    /\ userSeq <= MaxUserId
    /\ \E u \in RegUsernames, p \in RegPasswords, r \in RegRoles :
         LET res == PgRegisterUser(users, userSeq, u, p, r)
         IN  /\ users' = res.users
             /\ last' = [Idle EXCEPT !.op = "create_user", !.username = u,
                                     !.password = p, !.role = r, !.pre = users,
                                     !.ok = res.ok]
    /\ userSeq' = userSeq + 1
    /\ UNCHANGED <<seed, apiTables, loggedIn, calls>>

\* POST /auth/login
Login ==
    /\ SeedDone("api")
    /\ \E u \in LoginUsernames, p \in LoginPasswords :
         LET rsp == LoginResponse(users, u, p)
         IN  /\ last' = [Idle EXCEPT !.op = "login", !.username = u, !.password = p,
                                     !.pre = users, !.ok = (rsp.status = 200),
                                     !.user = rsp.user, !.status = rsp.status,
                                     !.token = rsp.token, !.detail = rsp.detail,
                                     !.fails = FailsAfter(u, rsp.status # 200)]
             /\ loggedIn' = IF rsp.status = 200 THEN loggedIn \cup {rsp.user.id}
                            ELSE loggedIn
    /\ UNCHANGED <<users, userSeq, seed, apiTables, calls>>

\* the sign-in form of app.py: auth_manager.authenticate_user(username, password)
Authenticate ==
    /\ SeedDone("streamlit")
    /\ \E u \in LoginUsernames, p \in LoginPasswords :
         LET user == AuthenticateUser(users, u, p)
         IN  last' = [Idle EXCEPT !.op = "authenticate", !.username = u,
                                  !.password = p, !.pre = users,
                                  !.ok = (user # NoUser), !.user = user,
                                  !.fails = FailsAfter(u, user = NoUser)]
    /\ UNCHANGED <<users, userSeq, seed, apiTables, loggedIn, calls>>

NoSkill == [phase |-> "off"]
NoMentor == [phase |-> "off"]
NoBfs == [phase |-> "off"]
NoRag == [phase |-> "off"]
NoCls == [phase |-> "off"]
NoMentors == [rows |-> <<>>, seq |-> 1]
NoPosts == <<>>
NoPlan == [phase |-> "off"]
NoFast == [phase |-> "off"]

\* the components no request of this section reaches
LaterOff ==
    /\ cls = NoCls
    /\ mentors = NoMentors
    /\ posts = NoPosts
    /\ plan = NoPlan
    /\ fast = NoFast

InitAuth ==
    /\ users = <<>>
    /\ userSeq = 1
    /\ seed = [a \in Apps |-> [idx |-> 1, phase |-> "check"]]
    /\ chat = <<>>
    /\ chatSeq = 1
    /\ roles = <<>>
    /\ roleSeq = 1
    /\ indexed = <<>>
    /\ loggedIn = {}
    /\ last = Idle
    /\ sk = NoSkill
    /\ mt = NoMentor
    /\ bfs = NoBfs
    /\ rag = NoRag
    /\ LaterOff

NextAuth ==
    \/ \E a \in Apps : SeedCheck(a)
    \/ \E a \in Apps : SeedInsert(a)
    \/ PgInsertSampleData
    \/ \E a \in Apps : Register(a)
    \/ PgRegister
    \/ Login
    \/ Authenticate

SpecAuth == InitAuth /\ [][NextAuth]_vars


(***************************************************************************)
(* Claims about the users table and sign-in (SpecAuth).                    *)
(***************************************************************************)
\* C1: after any interleaving of register_user / create_user calls and of the
\* seeding of the default and demo users, no two rows of the users table have
\* the same username.
C1_UniqueUsernames ==
    \A i, j \in 1..Len(users) : i # j => users[i].username # users[j].username

\* an INSERT was refused although the caller had just seen no such user (two
\* applications seeding at once), and the table holds several rows
C1_Witness ==
    /\ last.op = "seed"
    /\ ~last.ok
    /\ Len(users) >= 2

\* C2: register_user with a username that already exists returns False and
\* leaves the users table as it was (the row keeps its password hash and
\* role); POST /auth/register then answers 400 "Username already exists", and
\* answers success only when a new row was inserted.
C2_RegisterExisting ==
    /\ (last.op \in {"register", "create_user", "seed"}
          /\ (\E i \in 1..Len(last.pre) : last.pre[i].username = last.username))
       => (~last.ok /\ users = last.pre)
    /\ (last.op = "register" /\ ~last.ok)
       => (last.status = 400 /\ last.detail = <<"Username already exists">>)
    /\ (last.op = "register" /\ last.status = 200)
       => /\ last.ok
          /\ Len(users) = Len(last.pre) + 1
          /\ SubSeq(users, 1, Len(last.pre)) = last.pre
          /\ users[Len(users)].username = last.username
          /\ users[Len(users)].password_hash = HashPassword(last.password)
          /\ users[Len(users)].role = last.role
          /\ \A i \in 1..Len(last.pre) : last.pre[i].username # last.username

\* POST /auth/register for an existing username with another password and
\* role was answered 400
C2_Witness ==
    /\ last.op = "register"
    /\ last.status = 400
    /\ \E i \in 1..Len(users) :
         /\ users[i].username = last.username
         /\ users[i].password_hash # HashPassword(last.password)
         /\ users[i].role # last.role

TokenIds == {1, 11}
Tokens ==
    {MakeToken(n) : n \in TokenIds}
        \cup {<<"a", "d", "m", "i", "n">>, UserPrefix, UserPrefix \o <<"2", "_", "7">>}

Queries == {"what is a data analyst"}

\* str(e) of a failure of the database under a core call
Errors == {"connection refused"}

\* the parameters of the core functions the handlers call with keyword arguments
Signature(fn) ==
    CASE fn = "query_documents" ->
           [params |-> {"query", "user_id", "k"}, required |-> {"query", "user_id"}]
      [] fn = "generate_career_roadmap" ->
           [params |-> {"current_role", "target_role", "user_id"},
            required |-> {"current_role", "target_role", "user_id"}]
      [] fn = "analyze_skill_gap" ->
           [params |-> {"current_skills", "target_role_id"},
            required |-> {"current_skills", "target_role_id"}]
      [] fn = "find_mentors" ->
           [params |-> {"user_profile", "target_role", "limit"},
            required |-> {"user_profile"}]
      [] fn = "save_job_role" ->
           [params |-> {"title", "department", "level", "description", "skills",
                        "file_path", "uploaded_by"},
            required |-> {"title", "department", "level", "description", "skills",
                          "file_path", "uploaded_by"}]

\* the keyword arguments each handler passes
HandlerKwargs(fn) ==
    CASE fn = "query_documents" -> {"query", "user_id"}
      [] fn = "generate_career_roadmap" -> {"current_role", "target_role", "user_id"}
      [] fn = "analyze_skill_gap" -> {"current_skills", "target_role", "user_id"}
      [] fn = "find_mentors" -> {"target_role", "user_id"}
      [] fn = "save_job_role" -> {"title", "department", "level", "description", "skills",
                                  "file_path", "uploaded_by"}

\* Python's TypeError for a call whose keywords the function does not accept
\* or that leaves a required parameter unbound; "" when the call binds
CallTypeError(fn) ==
    IF HandlerKwargs(fn) \subseteq Signature(fn).params
          /\ Signature(fn).required \subseteq HandlerKwargs(fn)
    THEN "" ELSE "TypeError"

UserExists(tbl, id) == \E i \in 1..Len(tbl) : tbl[i].id = id

\* Variant: a handler whose except clause answers with the success body
HandlerResponseSwallow(prefix, raised, body) ==
    [status |-> 200, detail |-> <<>>, body |-> body, propagated |-> FALSE]

\* try: <core call>; return <body>
\* except Exception as e: raise HTTPException(500, detail=f"<prefix>{str(e)}")
HandlerResponse(prefix, raised, body) ==
    IF raised # ""
    THEN [status |-> 500, detail |-> <<prefix, raised>>, body |-> "none",
          propagated |-> FALSE]
    ELSE [status |-> 200, detail |-> <<>>, body |-> body, propagated |-> FALSE]

\* the answer when the get_current_user dependency does not return: 401 for a
\* token without the prefix, the uncaught ValueError of int() otherwise
Denied(op, token, auth) ==
    [Idle EXCEPT !.op = op, !.token = token, !.pre = users, !.prechat = chat,
                 !.status = auth.status,
                 !.detail = IF auth.status = 401
                            THEN <<"Invalid authentication credentials">> ELSE <<>>,
                 !.propagated = (auth.status = 500)]

\* the record of a handler that ran its body for user uid
Handled(op, token, uid, raised, rsp) ==
    [Idle EXCEPT !.op = op, !.token = token, !.pre = users, !.prechat = chat,
                 !.uid = uid, !.ok = (rsp.status = 200), !.raised = raised,
                 !.status = rsp.status, !.detail = rsp.detail, !.body = rsp.body,
                 !.propagated = rsp.propagated]

\* POST /chat/query: rag_pipeline.query_documents(query=, user_id=).  The call
\* returns with the interaction saved, returns without saving it, or raises
\* (a database failure, or the foreign key of chat_history.user_id refusing a
\* user id that has no users row)
ChatQuery ==
    /\ chatSeq <= MaxChatId
    /\ \E token \in Tokens, q \in Queries, fault \in {""} \cup Errors, saves \in BOOLEAN :
         LET auth == GetCurrentUser(token)
             uid == auth.user_id
             raised == IF CallTypeError("query_documents") # ""
                       THEN CallTypeError("query_documents")
                       ELSE IF fault # "" THEN fault
                       ELSE IF saves /\ ~UserExists(users, uid) THEN "ForeignKeyViolation"
                       ELSE ""
             rsp == HandlerResponse("Error processing query: ", raised, "response")
         IN  IF auth.status # 200
             THEN /\ last' = Denied("chat_query", token, auth)
                  /\ UNCHANGED <<chat, chatSeq>>
             ELSE /\ last' = Handled("chat_query", token, uid, raised, rsp)
                  /\ IF raised = "" /\ saves
                     THEN /\ chat' = Append(chat, [id |-> chatSeq, user_id |-> uid,
                                                   query |-> q])
                          /\ chatSeq' = chatSeq + 1
                     ELSE UNCHANGED <<chat, chatSeq>>
    /\ UNCHANGED <<users, userSeq, seed, roles, roleSeq, indexed, loggedIn, calls>>

\* GET /chat/history: db_manager.get_chat_history(user_id, limit)
GetChatHistory ==
    /\ \E token \in Tokens, fault \in {""} \cup Errors :
         LET auth == GetCurrentUser(token)
             rsp == HandlerResponse("Error retrieving chat history: ", fault, "history")
         IN  IF auth.status # 200
             THEN last' = Denied("get_chat_history", token, auth)
             ELSE last' = Handled("get_chat_history", token, auth.user_id, fault, rsp)
    /\ UNCHANGED <<users, userSeq, seed, apiTables, loggedIn, calls>>

\* DELETE FROM chat_history, without the WHERE clause
DeleteChatOfAnyUser(tbl, uid) == <<>>

\* DELETE FROM chat_history WHERE user_id = uid
DeleteChatOfUser(tbl, uid) ==
    LET F[i \in 0..Len(tbl)] ==
            IF i = 0 THEN <<>>
            ELSE IF tbl[i].user_id = uid THEN F[i - 1] ELSE Append(F[i - 1], tbl[i])
    IN  F[Len(tbl)]

\* DELETE /chat/history: db_manager.clear_chat_history(user_id)
ClearChatHistory ==
    /\ \E token \in Tokens, fault \in {""} \cup Errors :
         LET auth == GetCurrentUser(token)
             rsp == HandlerResponse("Error clearing chat history: ", fault,
                                    "Chat history cleared successfully")
         IN  IF auth.status # 200
             THEN /\ last' = Denied("clear_chat_history", token, auth)
                  /\ chat' = chat
             ELSE /\ last' = Handled("clear_chat_history", token, auth.user_id, fault, rsp)
                  /\ chat' = IF fault = "" THEN DeleteChatOfUser(chat, auth.user_id)
                             ELSE chat
    /\ UNCHANGED <<users, userSeq, seed, chatSeq, roles, roleSeq, indexed, loggedIn, calls>>

\* POST /career/roadmap: career_planner.generate_career_roadmap(current_role=,
\* target_role=, user_id=), which catches its own exceptions and returns
\* {'error': ...} in the success body
GenerateCareerRoadmap ==
    /\ \E token \in Tokens, body \in {"roadmap", "error"} :
         LET auth == GetCurrentUser(token)
             raised == CallTypeError("generate_career_roadmap")
             rsp == HandlerResponse("Error generating career roadmap: ", raised, body)
         IN  IF auth.status # 200
             THEN last' = Denied("generate_career_roadmap", token, auth)
             ELSE last' = Handled("generate_career_roadmap", token, auth.user_id, raised,
                                  rsp)
    /\ UNCHANGED <<users, userSeq, seed, apiTables, loggedIn, calls>>

\* POST /career/skill-analysis: skill_analyzer.analyze_skill_gap(current_skills=,
\* target_role=, user_id=)
AnalyzeSkills ==
    /\ \E token \in Tokens :
         LET auth == GetCurrentUser(token)
             raised == CallTypeError("analyze_skill_gap")
             rsp == HandlerResponse("Error analyzing skills: ", raised, "analysis")
         IN  IF auth.status # 200
             THEN last' = Denied("analyze_skills", token, auth)
             ELSE last' = Handled("analyze_skills", token, auth.user_id, raised, rsp)
    /\ UNCHANGED <<users, userSeq, seed, apiTables, loggedIn, calls>>

\* GET /mentors/recommendations: mentor_system.find_mentors(target_role=, user_id=)
GetMentorRecommendations ==
    /\ \E token \in Tokens :
         LET auth == GetCurrentUser(token)
             raised == CallTypeError("find_mentors")
             rsp == HandlerResponse("Error getting mentor recommendations: ", raised,
                                    "recommendations")
         IN  IF auth.status # 200
             THEN last' = Denied("get_mentor_recommendations", token, auth)
             ELSE last' = Handled("get_mentor_recommendations", token, auth.user_id,
                                  raised, rsp)
    /\ UNCHANGED <<users, userSeq, seed, apiTables, loggedIn, calls>>

\* POST /roles/: save_job_role(..., uploaded_by=user_id), then
\* roles = get_job_roles(1) and rag_pipeline.process_documents([roles[0]]);
\* one request at a time, the role read back is the one just saved
CreateJobRole ==
    /\ roleSeq <= MaxRoleId
    /\ \E token \in Tokens, fault \in {""} \cup Errors :
         LET auth == GetCurrentUser(token)
             uid == auth.user_id
             raised == IF CallTypeError("save_job_role") # ""
                       THEN CallTypeError("save_job_role")
                       ELSE IF fault # "" THEN fault
                       ELSE IF ~UserExists(users, uid) THEN "ForeignKeyViolation"
                       ELSE ""
             rsp == HandlerResponse("Error creating job role: ", raised,
                                    "Job role created successfully")
         IN  IF auth.status # 200
             THEN /\ last' = Denied("create_job_role", token, auth)
                  /\ UNCHANGED <<roles, roleSeq, indexed>>
             ELSE /\ last' = Handled("create_job_role", token, uid, raised, rsp)
                  /\ IF raised = ""
                     THEN /\ roles' = Append(roles, [id |-> roleSeq, title |-> "role",
                                                     uploaded_by |-> uid,
                                                     skills_required |-> <<>>])
                          /\ roleSeq' = roleSeq + 1
                          /\ indexed' = Append(indexed, roleSeq)
                     ELSE UNCHANGED <<roles, roleSeq, indexed>>
    /\ UNCHANGED <<users, userSeq, seed, chat, chatSeq, loggedIn, calls>>

\* GET /analytics/user-activity: get_chat_history, then a filter by date
GetUserActivity ==
    /\ \E token \in Tokens, fault \in {"", "TypeError"} \cup Errors :
         LET auth == GetCurrentUser(token)
             rsp == HandlerResponse("Error retrieving user activity: ", fault, "activity")
         IN  IF auth.status # 200
             THEN last' = Denied("get_user_activity", token, auth)
             ELSE last' = Handled("get_user_activity", token, auth.user_id, fault, rsp)
    /\ UNCHANGED <<users, userSeq, seed, apiTables, loggedIn, calls>>

\* the routes without the get_current_user dependency, each one core call
\* inside try/except
OpenRoutes ==
    [get_job_roles         |-> "Error retrieving job roles: ",
     search_job_roles      |-> "Error searching job roles: ",
     get_similar_roles     |-> "Error finding similar roles: ",
     get_mentors           |-> "Error retrieving mentors: ",
     get_analytics_summary |-> "Error retrieving analytics: "]

OpenRoute ==
    /\ \E route \in DOMAIN OpenRoutes, fault \in {""} \cup Errors :
         last' = Handled(route, <<>>, -1, fault, HandlerResponse(OpenRoutes[route], fault, route))
    /\ UNCHANGED <<users, userSeq, seed, apiTables, loggedIn, calls>>

ProtectedOps ==
    {"chat_query", "get_chat_history", "clear_chat_history", "generate_career_roadmap",
     "analyze_skills", "get_mentor_recommendations", "create_job_role",
     "get_user_activity"}

WrappedOps == ProtectedOps \cup DOMAIN OpenRoutes

\* the users table after _create_default_users on an id sequence standing at b
SeededUsers(b) ==
    [i \in 1..Len(DefaultUsers) |->
        UserRow(b + i - 1, DefaultUsers[i].username,
                HashPassword(DefaultUsers[i].password), DefaultUsers[i].role)]

\* the API process after start-up; the id sequence of a database that has
\* been in use does not start at 1
InitApi ==
    /\ \E b \in {1, 10} : /\ users = SeededUsers(b)
                         /\ userSeq = b + Len(DefaultUsers)
    /\ seed = [a \in Apps |-> [idx |-> Len(DefaultUsers) + 1, phase |-> "check"]]
    /\ chat = <<>>
    /\ chatSeq = 1
    /\ roles = <<>>
    /\ roleSeq = 1
    /\ indexed = <<>>
    /\ loggedIn = {}
    /\ last = Idle
    /\ sk = NoSkill
    /\ mt = NoMentor
    /\ bfs = NoBfs
    /\ rag = NoRag
    /\ LaterOff

NextApi ==
    \/ Login
    \/ ChatQuery
    \/ GetChatHistory
    \/ ClearChatHistory
    \/ GenerateCareerRoadmap
    \/ AnalyzeSkills
    \/ GetMentorRecommendations
    \/ CreateJobRole
    \/ GetUserActivity
    \/ OpenRoute

SpecApi == InitApi /\ [][NextApi]_vars


(***************************************************************************)
(* Claims about the API (SpecApi).                                         *)
(***************************************************************************)
\* C4: get_current_user verifies nothing: a bearer token user_<n> is accepted
\* as user n whether or not a user n exists and whether or not any login ever
\* succeeded, and the protected handler then runs on behalf of n (DELETE
\* /chat/history removes the rows of n).
C4_TokenNotVerified ==
    \A n \in TokenIds :
        (last.op \in ProtectedOps /\ last.token = MakeToken(n)) =>
            /\ last.uid = n
            /\ last.status \in {200, 500}
            /\ ~last.propagated
            /\ (last.status = 500) <=> (last.raised # "")
            /\ (last.op = "clear_chat_history" /\ last.status = 200) =>
                   /\ \A i \in 1..Len(chat) : chat[i].user_id # n
                   /\ chat = DeleteChatOfUser(last.prechat, n)

\* nobody has ever signed in, and the chat history of a user was cleared with
\* a token naming that user
C4_Witness ==
    /\ last.op = "clear_chat_history"
    /\ last.status = 200
    /\ loggedIn = {}
    /\ \E i \in 1..Len(last.prechat) : last.prechat[i].user_id = last.uid
    /\ \A i \in 1..Len(chat) : chat[i].user_id # last.uid

\* C5: POST /auth/login with accepted credentials returns access_token
\* "user_<id>" for the id of the authenticated row, and get_current_user on that
\* token returns the same id; with credentials that are not accepted it answers
\* 401 and no token.
C5_LoginRoundTrip ==
    last.op = "login" =>
        LET hits == {i \in 1..Len(last.pre) :
                        /\ last.pre[i].username = last.username
                        /\ last.pre[i].password_hash = HashPassword(last.password)}
        IN  IF hits # {}
            THEN /\ last.status = 200
                 /\ \E i \in hits :
                      /\ last.user.id = last.pre[i].id
                      /\ last.token = UserPrefix \o IntToStr(last.pre[i].id)
                      /\ GetCurrentUser(last.token).status = 200
                      /\ GetCurrentUser(last.token).user_id = last.pre[i].id
            ELSE /\ last.status = 401
                 /\ last.token = <<>>
                 /\ last.user = NoUser

\* a login of a user whose id has two digits
C5_Witness ==
    /\ last.op = "login"
    /\ last.status = 200
    /\ last.user.id >= 10
    /\ Len(last.token) = Len(UserPrefix) + 2

\* C6: in every route handler that wraps its core call in try/except, an
\* exception raised by the core call does not leave the handler: the response
\* is HTTP 500, its detail contains the exception's string, and there is no
\* success body.
C6_ExceptionsBecome500 ==
    (last.op \in WrappedOps /\ last.raised # "") =>
        /\ last.status = 500
        /\ ~last.propagated
        /\ last.body = "none"
        /\ \E i \in 1..Len(last.detail) : last.detail[i] = last.raised

\* the core call of POST /career/skill-analysis raised and the route answered 500
C6_Witness ==
    /\ last.op = "analyze_skills"
    /\ last.raised = "TypeError"
    /\ last.status = 500


(***************************************************************************)
(* SkillAnalyzer.analyze_skill_gap.                                        *)
(***************************************************************************)
\* str.lower() of one character
LowerChar(c) ==
    CASE c = "A" -> "a" [] c = "B" -> "b" [] c = "C" -> "c" [] c = "D" -> "d" [] c = "E" -> "e"
      [] c = "F" -> "f" [] c = "G" -> "g" [] c = "H" -> "h" [] c = "I" -> "i" [] c = "J" -> "j"
      [] c = "K" -> "k" [] c = "L" -> "l" [] c = "M" -> "m" [] c = "N" -> "n" [] c = "O" -> "o"
      [] c = "P" -> "p" [] c = "Q" -> "q" [] c = "R" -> "r" [] c = "S" -> "s" [] c = "T" -> "t"
      [] c = "U" -> "u" [] c = "V" -> "v" [] c = "W" -> "w" [] c = "X" -> "x" [] c = "Y" -> "y"
      [] c = "Z" -> "z"
      [] OTHER -> c

Lower(s) == [i \in 1..Len(s) |-> LowerChar(s[i])]

WhiteSpace == {" ", "\t", "\n"}

RECURSIVE LStrip(_, _)
\* s.lstrip(chars)
LStrip(s, chars) ==
    IF Len(s) > 0 /\ s[1] \in chars THEN LStrip(Tail(s), chars) ELSE s

RECURSIVE RStrip(_, _)
RStrip(s, chars) ==
    IF Len(s) > 0 /\ s[Len(s)] \in chars THEN RStrip(SubSeq(s, 1, Len(s) - 1), chars)
    ELSE s

\* s.strip()
Strip(s) == RStrip(LStrip(s, WhiteSpace), WhiteSpace)

Contains(s, c) == \E i \in 1..Len(s) : s[i] = c

\* the delimiters _parse_skills tries, in its order ("bullet" is U+2022)
Delimiters == <<",", ";", "\n", "bullet", "-">>

\* the characters of skill.lstrip('•-*123456789. ')
BulletChars == {"bullet", "-", "*", "1", "2", "3", "4", "5", "6", "7", "8", "9", ".", " "}

\* SkillAnalyzer._parse_skills
ParseSkills(text) ==
    IF Len(text) = 0 THEN <<>>
    ELSE LET present == {k \in 1..Len(Delimiters) : Contains(text, Delimiters[k])}
             first == CHOOSE k \in present : \A j \in present : k <= j
             pieces == IF present = {} THEN <<text>> ELSE SplitOn(text, Delimiters[first])
             Clean(piece) == Strip(LStrip(Strip(piece), BulletChars))
             F[i \in 0..Len(pieces)] ==
                 IF i = 0 THEN <<>>
                 ELSE IF Len(Clean(pieces[i])) > 1
                      THEN Append(F[i - 1], Clean(pieces[i]))
                      ELSE F[i - 1]
         IN  F[Len(pieces)]

\* the default of get_job_roles(limit)
RoleLimit == 100

\* DatabaseManager.get_job_roles: ORDER BY created_at DESC LIMIT limit
GetJobRoles(tbl, limit) ==
    LET n == IF Len(tbl) < limit THEN Len(tbl) ELSE limit
    IN  [i \in 1..n |-> tbl[Len(tbl) + 1 - i]]

\* Variant: the comparison without lower-casing and trimming
IsCurrentSkillRaw(skill, current) == \E i \in 1..Len(current) : current[i] = skill

\* skill.lower().strip() in current_skills_norm
IsCurrentSkill(skill, current) ==
    \E i \in 1..Len(current) : Strip(Lower(current[i])) = Strip(Lower(skill))

\* the loops that fill matching_skills and missing_skills
MatchingSkills(required, current) ==
    LET F[i \in 0..Len(required)] ==
            IF i = 0 THEN <<>>
            ELSE IF IsCurrentSkill(required[i], current)
                 THEN Append(F[i - 1], required[i]) ELSE F[i - 1]
    IN  F[Len(required)]

MissingSkills(required, current) ==
    LET F[i \in 0..Len(required)] ==
            IF i = 0 THEN <<>>
            ELSE IF ~IsCurrentSkill(required[i], current)
                 THEN Append(F[i - 1], required[i]) ELSE F[i - 1]
    IN  F[Len(required)]

NoAnalysis == [error |-> "", target_role |-> "", matching_skills |-> <<>>,
               missing_skills |-> <<>>, total_required_skills |-> 0,
               skills_to_develop |-> 0, match_tenths |-> 0]

\* SkillAnalyzer.analyze_skill_gap; match_tenths is match_percentage in tenths
\* of a percent
AnalyzeSkillGap(tbl, current, target_role_id) ==
    LET all == GetJobRoles(tbl, RoleLimit)
        found == {i \in 1..Len(all) : all[i].id = target_role_id}
    IN  IF found = {}
        THEN [NoAnalysis EXCEPT !.error = "Target role not found"]
        ELSE LET role == all[CHOOSE i \in found : \A j \in found : i <= j]
                 required == ParseSkills(role.skills_required)
                 matching == MatchingSkills(required, current)
                 missing == MissingSkills(required, current)
                 total == IF Len(required) > 0 THEN Len(required) ELSE 1
             IN  [error |-> "",
                  target_role |-> role.title,
                  matching_skills |-> matching,
                  missing_skills |-> missing,
                  total_required_skills |-> Len(required),
                  skills_to_develop |-> Len(missing),
                  match_tenths |-> (2000 * Len(matching) + total) \div (2 * total)]

\* skills as a role's skills_required may spell them between delimiters
RawSkills ==
    { <<"P", "y">>, <<" ", "p", "y", " ">>, <<"S", "Q">>, <<"1", ".", " ", "s", "q">>,
      <<"G", "-", "o">>, <<"C">> }

\* skills as a user may enter them
EnteredSkills == { <<"p", "y">>, <<"P", "Y", " ">>, <<"s", "q">>, <<"g", "o">> }

SeqsUpTo(S, n) == UNION {[1..k -> S] : k \in 0..n}

RECURSIVE Join(_, _)
\* delimiter.join(parts)
Join(parts, d) ==
    IF Len(parts) = 0 THEN <<>>
    ELSE IF Len(parts) = 1 THEN parts[1]
    ELSE parts[1] \o <<d>> \o Join(Tail(parts), d)

InitSkill ==
    /\ users = SeededUsers(1)
    /\ userSeq = Len(DefaultUsers) + 1
    /\ seed = [a \in Apps |-> [idx |-> Len(DefaultUsers) + 1, phase |-> "check"]]
    /\ chat = <<>>
    /\ chatSeq = 1
    /\ \E parts \in SeqsUpTo(RawSkills, MaxSkills), d \in {",", ";", "-"} :
         roles = << [id |-> 1, title |-> "Data Analyst", uploaded_by |-> 2,
                     skills_required |-> Join(parts, d)] >>
    /\ roleSeq = 2
    /\ indexed = <<>>
    /\ loggedIn = {}
    /\ last = Idle
    /\ \E current \in SeqsUpTo(EnteredSkills, MaxCurrent), id \in {1, 2} :
         sk = [phase |-> "ready", current_skills |-> current, target_role_id |-> id,
               result |-> NoAnalysis]
    /\ mt = NoMentor
    /\ bfs = NoBfs
    /\ rag = NoRag
    /\ LaterOff

\* the skill-gap tab of the employee dashboard calls analyze_skill_gap
AnalyzeSkillGapCall ==
    /\ sk.phase = "ready"
    /\ sk' = [sk EXCEPT !.phase = "done",
                        !.result = AnalyzeSkillGap(roles, sk.current_skills,
                                                   sk.target_role_id)]
    /\ UNCHANGED <<users, userSeq, seed, apiTables, loggedIn, last, mt, bfs, rag,
                 cls, mentors, posts, plan, fast>>

NextSkill == AnalyzeSkillGapCall

SpecSkill == InitSkill /\ [][NextSkill]_vars

\* C7: for a target role that is found, analyze_skill_gap partitions the
\* role's parsed required skills: each is in exactly one of matching_skills and
\* missing_skills, in matching_skills exactly when its lower-cased, trimmed
\* form equals that of some current skill; total_required_skills =
\* len(matching_skills) + len(missing_skills), skills_to_develop =
\* len(missing_skills).
C7_SkillPartition ==
    (sk.phase = "done" /\ sk.result.error = "") =>
        LET required == ParseSkills(roles[1].skills_required)
            norm == {Strip(Lower(sk.current_skills[i])) : i \in 1..Len(sk.current_skills)}
            Known(s) == Strip(Lower(s)) \in norm
            Unknown(s) == Strip(Lower(s)) \notin norm
            r == sk.result
        IN  /\ r.matching_skills = SelectSeq(required, Known)
            /\ r.missing_skills = SelectSeq(required, Unknown)
            /\ \A i \in 1..Len(required) :
                 /\ Known(required[i]) <=>
                      \E k \in 1..Len(r.matching_skills) : r.matching_skills[k] = required[i]
                 /\ ~Known(required[i]) <=>
                      \E k \in 1..Len(r.missing_skills) : r.missing_skills[k] = required[i]
            /\ r.total_required_skills = Len(r.matching_skills) + Len(r.missing_skills)
            /\ r.total_required_skills = Len(required)
            /\ r.skills_to_develop = Len(r.missing_skills)

\* an analysis with a matching and a missing skill, the matching one spelled
\* differently from every current skill
C7_Witness ==
    /\ sk.phase = "done"
    /\ sk.result.error = ""
    /\ Len(sk.result.matching_skills) >= 1
    /\ Len(sk.result.missing_skills) >= 1
    /\ \A i \in 1..Len(sk.current_skills) :
         sk.current_skills[i] # sk.result.matching_skills[1]


(***************************************************************************)
(* MentorSystem.find_mentors.  Mentor and profile texts are strings.       *)
(***************************************************************************)
\* x in y, for strings
StrHas(y, x) ==
    \E i \in 0..(Len(y) - Len(x)) : SubSeq(y, i + 1, i + Len(x)) = x

RECURSIVE StrLower(_)
\* s.lower()
StrLower(s) ==
    IF Len(s) <= 1 THEN LowerChar(s)
    ELSE StrLower(SubSeq(s, 1, Len(s) \div 2)) \o StrLower(SubSeq(s, Len(s) \div 2 + 1, Len(s)))

\* len(s.split(c)) for a one-character c
SplitCount(s, c) == Cardinality({i \in 1..Len(s) : SubSeq(s, i, i) = c}) + 1

\* key_terms of _extract_role_keywords
RoleKeyTerms ==
    << "engineer", "manager", "director", "analyst", "scientist", "product", "data",
       "software", "senior", "lead", "principal", "marketing", "sales", "operations",
       "finance", "hr" >>

\* keywords of _extract_keywords
CareerKeywords ==
    << "leadership", "management", "technical", "strategy", "growth", "transition",
       "development", "skills", "experience", "mentorship" >>

\* the elements of seq that occur in text, in order
FoundIn(seq, text) ==
    LET F[i \in 0..Len(seq)] ==
            IF i = 0 THEN <<>>
            ELSE IF StrHas(text, seq[i]) THEN Append(F[i - 1], seq[i]) ELSE F[i - 1]
    IN  F[Len(seq)]

\* MentorSystem._extract_role_keywords: the role itself, then its key terms
ExtractRoleKeywords(role) == <<StrLower(role)>> \o FoundIn(RoleKeyTerms, StrLower(role))

\* MentorSystem._extract_keywords
ExtractKeywords(text) == FoundIn(CareerKeywords, StrLower(text))

\* a column that holds NULL: dict.get returns None and .lower() raises
NullText == "<NULL>"

\* Variant: the target-role terms computed without the test on target_role
CalculateMentorScoreAnyTarget(mentor, user_profile, target_role) ==
    LET cur == StrLower(mentor.current_role)
        prev == StrLower(mentor.previous_roles)
        expertise == StrLower(mentor.expertise)
        user_role == StrLower(user_profile.current_role)
        goals == StrLower(user_profile.goals)
        target == StrLower(target_role)
        byTarget ==
            (IF StrHas(cur, target) THEN 30 ELSE 0)
            + (IF StrHas(prev, target) THEN 20 ELSE 0)
            + 5 * Len(FoundIn(ExtractRoleKeywords(target_role), expertise))
        byProgression ==
            IF user_role # "" /\ prev # ""
            THEN 10 * Len(FoundIn(ExtractRoleKeywords(user_role), prev))
            ELSE 0
        byGoals ==
            IF goals # "" THEN 8 * Len(FoundIn(ExtractKeywords(goals), expertise)) ELSE 0
        byDiversity == IF SplitCount(prev, ",") > 2 THEN 5 ELSE 0
    IN  byTarget + byProgression + byGoals + byDiversity

\* MentorSystem._calculate_mentor_score
CalculateMentorScore(mentor, user_profile, target_role) ==
    LET cur == StrLower(mentor.current_role)
        prev == StrLower(mentor.previous_roles)
        expertise == StrLower(mentor.expertise)
        user_role == StrLower(user_profile.current_role)
        goals == StrLower(user_profile.goals)
        target == StrLower(target_role)
        byTarget ==
            IF target_role # ""
            THEN (IF StrHas(cur, target) THEN 30 ELSE 0)
                 + (IF StrHas(prev, target) THEN 20 ELSE 0)
                 + 5 * Len(FoundIn(ExtractRoleKeywords(target_role), expertise))
            ELSE 0
        byProgression ==
            IF user_role # "" /\ prev # ""
            THEN 10 * Len(FoundIn(ExtractRoleKeywords(user_role), prev))
            ELSE 0
        byGoals ==
            IF goals # "" THEN 8 * Len(FoundIn(ExtractKeywords(goals), expertise)) ELSE 0
        byDiversity == IF SplitCount(prev, ",") > 2 THEN 5 ELSE 0
    IN  byTarget + byProgression + byGoals + byDiversity

\* Variant: the sort without reverse=True
InsertByScoreAscending(sorted, m) ==
    LET k == Cardinality({i \in 1..Len(sorted) : sorted[i].match_score <= m.match_score})
    IN  SubSeq(sorted, 1, k) \o <<m>> \o SubSeq(sorted, k + 1, Len(sorted))

\* one insertion of the stable sort by match_score, highest first: m goes
\* behind every element that scores at least as much
InsertByScore(sorted, m) ==
    LET k == Cardinality({i \in 1..Len(sorted) : sorted[i].match_score >= m.match_score})
    IN  SubSeq(sorted, 1, k) \o <<m>> \o SubSeq(sorted, k + 1, Len(sorted))

\* scored_mentors.sort(key=lambda x: x['match_score'], reverse=True)
SortByScore(seq) ==
    LET F[i \in 0..Len(seq)] ==
            IF i = 0 THEN <<>> ELSE InsertByScore(F[i - 1], seq[i])
    IN  F[Len(seq)]

\* MentorSystem.find_mentors; a mentor with a NULL text column makes the
\* scoring raise, which the except clause turns into []
FindMentors(tbl, user_profile, target_role, limit) ==
    IF \E i \in 1..Len(tbl) : NullText \in {tbl[i].current_role, tbl[i].previous_roles,
                                            tbl[i].expertise}
    THEN <<>>
    ELSE LET scored ==
                 LET F[i \in 0..Len(tbl)] ==
                         IF i = 0 THEN <<>>
                         ELSE LET score == CalculateMentorScore(tbl[i], user_profile,
                                                                target_role)
                              IN  IF score > 0
                                  THEN Append(F[i - 1],
                                              [id |-> tbl[i].id, name |-> tbl[i].name,
                                               match_score |-> score])
                                  ELSE F[i - 1]
                 IN  F[Len(tbl)]
             ranked == SortByScore(scored)
         IN  SubSeq(ranked, 1, IF limit < Len(ranked) THEN limit ELSE Len(ranked))

\* sample_mentors of DatabaseManager._insert_sample_mentors, and two more rows
MentorPool ==
    { [id |-> 1, name |-> "Sarah Chen", current_role |-> "Senior Product Manager",
       previous_roles |-> "Business Analyst, Junior PM",
       expertise |-> "Product Strategy, User Research, Agile"],
      [id |-> 2, name |-> "Michael Rodriguez", current_role |-> "Engineering Manager",
       previous_roles |-> "Software Engineer, Senior Developer",
       expertise |-> "Technical Leadership, Team Management, Architecture"],
      [id |-> 3, name |-> "Lisa Wang", current_role |-> "Data Science Director",
       previous_roles |-> "Data Analyst, ML Engineer",
       expertise |-> "Machine Learning, Analytics, Data Strategy"],
      [id |-> 4, name |-> "Omar Haddad", current_role |-> "Product Manager",
       previous_roles |-> "Support Agent, QA Tester, Product Owner",
       expertise |-> "Roadmaps, Growth"],
      [id |-> 5, name |-> "Ana Silva", current_role |-> "Recruiter",
       previous_roles |-> "Receptionist", expertise |-> NullText] }

\* the mentors table: rows of the pool, in any physical order
MentorTables ==
    {t \in SeqsUpTo(MentorPool, MaxMentors) : \A i, j \in 1..Len(t) : i # j => t[i] # t[j]}

UserProfiles ==
    { [current_role |-> "", goals |-> ""],
      [current_role |-> "Data Analyst", goals |-> "technical leadership and strategy"] }

TargetRoles == {"", "Product Manager", "Manager"}

InitMentor ==
    /\ users = SeededUsers(1)
    /\ userSeq = Len(DefaultUsers) + 1
    /\ seed = [a \in Apps |-> [idx |-> Len(DefaultUsers) + 1, phase |-> "check"]]
    /\ chat = <<>>
    /\ chatSeq = 1
    /\ roles = <<>>
    /\ roleSeq = 1
    /\ indexed = <<>>
    /\ loggedIn = {}
    /\ last = Idle
    /\ sk = NoSkill
    /\ \E t \in MentorTables, p \in UserProfiles, r \in TargetRoles, n \in 0..MaxLimit :
         mt = [phase |-> "ready", mentors |-> t, user_profile |-> p, target_role |-> r,
               limit |-> n, result |-> <<>>]
    /\ bfs = NoBfs
    /\ rag = NoRag
    /\ LaterOff

\* the mentor tab of the employee dashboard calls find_mentors
FindMentorsCall ==
    /\ mt.phase = "ready"
    /\ mt' = [mt EXCEPT !.phase = "done",
                        !.result = FindMentors(mt.mentors, mt.user_profile,
                                               mt.target_role, mt.limit)]
    /\ UNCHANGED <<users, userSeq, seed, apiTables, loggedIn, last, sk, bfs, rag,
                 cls, mentors, posts, plan, fast>>

NextMentor == FindMentorsCall

SpecMentor == InitMentor /\ [][NextMentor]_vars

\* C8: find_mentors returns at most limit mentors, each with match_score > 0,
\* in non-increasing match_score order, and no mentor left out scores strictly
\* higher than a returned one; mentors scoring 0 are never returned.
C8_MentorRanking ==
    mt.phase = "done" =>
        LET res == mt.result
            Score(m) == CalculateMentorScore(m, mt.user_profile, mt.target_role)
            Returned(m) == \E k \in 1..Len(res) : res[k].id = m.id
        IN  /\ Len(res) <= mt.limit
            /\ \A k \in 1..Len(res) : res[k].match_score > 0
            /\ \A k \in 1..Len(res) :
                 \E i \in 1..Len(mt.mentors) :
                    /\ mt.mentors[i].id = res[k].id
                    /\ res[k].match_score = Score(mt.mentors[i])
            /\ \A k, l \in 1..Len(res) : k < l => res[k].match_score >= res[l].match_score
            /\ \A k, l \in 1..Len(res) : k # l => res[k].id # res[l].id
            /\ \A i \in 1..Len(mt.mentors) :
                 (Len(res) > 0 /\ ~Returned(mt.mentors[i])) =>
                    \A k \in 1..Len(res) : Score(mt.mentors[i]) <= res[k].match_score

\* a call on a full table that returned limit mentors with different scores
\* and left a mentor with a positive score out
C8_Witness ==
    LET Score(m) == CalculateMentorScore(m, mt.user_profile, mt.target_role)
        Left(m) == \A k \in 1..Len(mt.result) : mt.result[k].id # m.id
    IN  /\ mt.phase = "done"
        /\ Len(mt.result) = mt.limit
        /\ Len(mt.result) >= 2
        /\ mt.result[1].match_score > mt.result[Len(mt.result)].match_score
        /\ Len(mt.mentors) = MaxMentors
        /\ \E i \in 1..Len(mt.mentors) : Left(mt.mentors[i]) /\ Score(mt.mentors[i]) > 0


(***************************************************************************)
(* CareerPlanner._bfs_path_search                                          *)
(***************************************************************************)
\* career_paths['Engineering']
EngineeringPaths ==
       "Junior Developer" :> << "Senior Developer", "Full Stack Developer" >>
    @@ "Senior Developer" :> << "Team Lead", "Staff Engineer", "Engineering Manager" >>
    @@ "Team Lead" :> << "Engineering Manager", "Principal Engineer" >>
    @@ "Engineering Manager" :> << "Director of Engineering", "VP Engineering" >>
    @@ "Staff Engineer" :> << "Principal Engineer", "Distinguished Engineer" >>
    @@ "Principal Engineer" :> << "Distinguished Engineer", "Engineering Director" >>

\* career_paths['Product']
ProductPaths ==
       "Product Analyst" :> << "Associate Product Manager" >>
    @@ "Associate Product Manager" :> << "Product Manager" >>
    @@ "Product Manager" :> << "Senior Product Manager", "Group Product Manager" >>
    @@ "Senior Product Manager" :> << "Principal Product Manager", "Product Director" >>
    @@ "Group Product Manager" :> << "Product Director", "VP Product" >>
    @@ "Product Director" :> << "VP Product", "Chief Product Officer" >>

\* career_paths['Data']
DataPaths ==
       "Data Analyst" :> << "Senior Data Analyst", "Data Scientist" >>
    @@ "Senior Data Analyst" :> << "Lead Data Analyst", "Data Scientist" >>
    @@ "Data Scientist" :> << "Senior Data Scientist", "ML Engineer" >>
    @@ "Senior Data Scientist" :> << "Principal Data Scientist", "Data Science Manager" >>
    @@ "ML Engineer" :> << "Senior ML Engineer", "ML Engineering Manager" >>
    @@ "Data Science Manager" :> << "Director of Data Science", "VP Analytics" >>

\* career_paths['Marketing']
MarketingPaths ==
       "Marketing Specialist" :> << "Senior Marketing Specialist", "Marketing Manager" >>
    @@ "Marketing Manager" :> << "Senior Marketing Manager", "Marketing Director" >>
    @@ "Senior Marketing Manager" :> << "Marketing Director", "VP Marketing" >>
    @@ "Marketing Director" :> << "VP Marketing", "Chief Marketing Officer" >>

\* career_paths['Sales']
SalesPaths ==
       "Sales Representative" :> << "Senior Sales Rep", "Account Manager" >>
    @@ "Account Manager" :> << "Senior Account Manager", "Sales Manager" >>
    @@ "Sales Manager" :> << "Senior Sales Manager", "Sales Director" >>
    @@ "Sales Director" :> << "VP Sales", "Chief Revenue Officer" >>

\* a dictionary with a short and a long way from Intern to Partner
DetourPaths ==
       "Intern" :> << "Associate", "Clerk" >>
    @@ "Associate" :> << "Partner" >>
    @@ "Clerk" :> << "Officer", "Intern" >>
    @@ "Officer" :> << "Partner", "Clerk" >>

\* self.career_paths, and the dictionary above
CareerPaths ==
    {EngineeringPaths, ProductPaths, DataPaths, MarketingPaths, SalesPaths, DetourPaths}

\* role names of the generated dictionaries
RoleNames == <<"Analyst", "Lead", "Manager", "Director">>

GenRoles == {RoleNames[i] : i \in 1..MaxNodes}

\* next-role lists of a generated dictionary: at most two different roles
GenNextRoles ==
    {<<>>} \cup {<<x>> : x \in GenRoles}
           \cup {p \in GenRoles \X GenRoles : p[1] # p[2]}

\* generated dictionaries: any next-role lists, cycles included (roles that
\* are no key occur in the career_paths dictionaries)
GenPaths == [GenRoles -> GenNextRoles]

\* the roles a dictionary mentions, as key or as next role
RolesOf(paths) ==
    DOMAIN paths \cup UNION {{paths[k][i] : i \in 1..Len(paths[k])} : k \in DOMAIN paths}

\* paths.get(role, [])
NextRoles(paths, role) == IF role \in DOMAIN paths THEN paths[role] ELSE <<>>

NoPath == [found |-> FALSE, path |-> <<>>]

\* Variant: queue.pop(), the newest entry first
PopRight(queue) == [entry |-> queue[Len(queue)], rest |-> SubSeq(queue, 1, Len(queue) - 1)]

\* queue.popleft()
PopLeft(queue) == [entry |-> Head(queue), rest |-> Tail(queue)]

\* the for loop over next_roles of one while iteration: returns on the first
\* next role equal to end, else marks and enqueues the unvisited ones
ScanNextRoles(next_roles, path, end, visited, queue) ==
    LET F[i \in 0..Len(next_roles)] ==
            IF i = 0 THEN [result |-> NoPath, returned |-> FALSE, visited |-> visited,
                           queue |-> queue]
            ELSE LET prev == F[i - 1]
                     next_role == next_roles[i]
                 IN  IF prev.returned THEN prev
                     ELSE IF next_role = end
                     THEN [prev EXCEPT !.returned = TRUE,
                                       !.result = [found |-> TRUE,
                                                   path |-> Append(path, next_role)]]
                     ELSE IF next_role \notin prev.visited
                     THEN [prev EXCEPT !.visited = @ \cup {next_role},
                                       !.queue = Append(@, [role |-> next_role,
                                                            path |-> Append(path, next_role)])]
                     ELSE prev
    IN  F[Len(next_roles)]

InitBfs ==
    /\ users = SeededUsers(1)
    /\ userSeq = Len(DefaultUsers) + 1
    /\ seed = [a \in Apps |-> [idx |-> Len(DefaultUsers) + 1, phase |-> "check"]]
    /\ chat = <<>>
    /\ chatSeq = 1
    /\ roles = <<>>
    /\ roleSeq = 1
    /\ indexed = <<>>
    /\ loggedIn = {}
    /\ last = Idle
    /\ sk = NoSkill
    /\ mt = NoMentor
    /\ \E paths \in CareerPaths \cup GenPaths :
         \E start, end \in (IF paths \in CareerPaths THEN RolesOf(paths) ELSE GenRoles) :
            bfs = [phase |-> "call", start |-> start, end |-> end, paths |-> paths,
                   queue |-> <<>>, visited |-> {}, result |-> NoPath]
    /\ rag = NoRag
    /\ LaterOff

\* if start == end: return [start]
BfsSameRole ==
    /\ bfs.phase = "call"
    /\ bfs.start = bfs.end
    /\ bfs' = [bfs EXCEPT !.phase = "done",
                          !.result = [found |-> TRUE, path |-> <<bfs.start>>]]
    /\ UNCHANGED <<users, userSeq, seed, apiTables, loggedIn, last, sk, mt, rag,
                 cls, mentors, posts, plan, fast>>

\* queue = deque([(start, [start])]); visited = set([start])
BfsBegin ==
    /\ bfs.phase = "call"
    /\ bfs.start # bfs.end
    /\ bfs' = [bfs EXCEPT !.phase = "loop",
                          !.queue = <<[role |-> bfs.start, path |-> <<bfs.start>>]>>,
                          !.visited = {bfs.start}]
    /\ UNCHANGED <<users, userSeq, seed, apiTables, loggedIn, last, sk, mt, rag,
                 cls, mentors, posts, plan, fast>>

\* one iteration of while queue
BfsIterate ==
    /\ bfs.phase = "loop"
    /\ bfs.queue # <<>>
    /\ LET popped == PopLeft(bfs.queue)
           scan == ScanNextRoles(NextRoles(bfs.paths, popped.entry.role), popped.entry.path,
                                 bfs.end, bfs.visited, popped.rest)
       IN  bfs' = IF scan.returned
                  THEN [bfs EXCEPT !.phase = "done", !.result = scan.result,
                                   !.queue = popped.rest]
                  ELSE [bfs EXCEPT !.queue = scan.queue, !.visited = scan.visited]
    /\ UNCHANGED <<users, userSeq, seed, apiTables, loggedIn, last, sk, mt, rag,
                 cls, mentors, posts, plan, fast>>

\* the queue ran empty: return None
BfsExhausted ==
    /\ bfs.phase = "loop"
    /\ bfs.queue = <<>>
    /\ bfs' = [bfs EXCEPT !.phase = "done", !.result = NoPath]
    /\ UNCHANGED <<users, userSeq, seed, apiTables, loggedIn, last, sk, mt, rag,
                 cls, mentors, posts, plan, fast>>

NextBfs == BfsSameRole \/ BfsBegin \/ BfsIterate \/ BfsExhausted

SpecBfs == InitBfs /\ [][NextBfs]_vars

\* paths has the edge a -> b
Edge(paths, a, b) == a \in DOMAIN paths /\ \E j \in 1..Len(paths[a]) : paths[a][j] = b

RECURSIVE Grow(_, _, _)
\* the roles reachable from a role of S along at most n edges of paths
Grow(paths, S, n) ==
    IF n = 0 THEN S
    ELSE Grow(paths, S \cup {b \in RolesOf(paths) : \E a \in S : Edge(paths, a, b)}, n - 1)

\* the roles reachable from start along at most n edges of paths
Within(paths, start, n) == Grow(paths, {start}, n)

Reachable(paths, start, end) == end \in Within(paths, start, Cardinality(RolesOf(paths)))

\* the number of edges of a shortest path from start to a reachable end
Distance(paths, start, end) ==
    CHOOSE n \in 0..Cardinality(RolesOf(paths)) :
        /\ end \in Within(paths, start, n)
        /\ \A k \in 0..(n - 1) : end \notin Within(paths, start, k)

\* C9: _bfs_path_search returns a path exactly when end is reachable from
\* start along edges of paths: it begins with start, ends with end, every
\* consecutive pair is an edge, and no path with fewer edges exists; it
\* returns None exactly when end is unreachable.
C9_BfsShortestPath ==
    bfs.phase = "done" =>
        LET path == bfs.result.path
        IN  /\ bfs.result.found <=> Reachable(bfs.paths, bfs.start, bfs.end)
            /\ bfs.result.found =>
                 /\ Len(path) >= 1
                 /\ path[1] = bfs.start
                 /\ path[Len(path)] = bfs.end
                 /\ \A i \in 1..(Len(path) - 1) : Edge(bfs.paths, path[i], path[i + 1])
                 /\ Len(path) - 1 = Distance(bfs.paths, bfs.start, bfs.end)
            /\ ~bfs.result.found => path = <<>>

\* a search that returned a path of two edges although another next role of
\* start, listed later and so explored later, leads to end along three edges
C9_Witness ==
    /\ bfs.phase = "done"
    /\ bfs.result.found
    /\ Len(bfs.result.path) = 3
    /\ \E r \in RolesOf(bfs.paths) :
         /\ Edge(bfs.paths, bfs.start, r)
         /\ r # bfs.result.path[2]
         /\ Reachable(bfs.paths, r, bfs.end)
         /\ Distance(bfs.paths, r, bfs.end) = 2

\* a search that returned None although start has next roles
C9_WitnessNone ==
    /\ bfs.phase = "done"
    /\ ~bfs.result.found
    /\ Len(NextRoles(bfs.paths, bfs.start)) > 0


(***************************************************************************)
(* RAGPipeline.query_documents                                             *)
(***************************************************************************)
\* the characters \w matches in a lower-cased query
WordChars ==
    {"a", "b", "c", "d", "e", "f", "g", "h", "i", "j", "k", "l", "m", "n", "o", "p", "q",
     "r", "s", "t", "u", "v", "w", "x", "y", "z", "_"} \cup {Digits[i] : i \in 1..10}

\* the maximal runs of s made of characters in chars (negate: not in chars),
\* each with the position it starts at
Runs(s, chars, negate) ==
    LET InRun(i) == IF negate THEN SubSeq(s, i, i) \notin chars ELSE SubSeq(s, i, i) \in chars
        starts == {i \in 1..Len(s) : InRun(i) /\ (i = 1 \/ ~InRun(i - 1))}
        EndOf(i) == CHOOSE j \in i..Len(s) :
                        /\ \A k \in i..j : InRun(k)
                        /\ j = Len(s) \/ ~InRun(j + 1)
    IN  {[at |-> i, word |-> SubSeq(s, i, EndOf(i))] : i \in starts}

\* re.findall(r'\b\w+\b', query_lower)
FindWords(s) == Runs(s, WordChars, FALSE)

\* s.split()
SplitBlank(s) == Runs(s, WhiteSpace, TRUE)

\* role_keywords of _get_database_role_info
RoleKeywords ==
    << [keyword |-> "sde",
         variations |-> {"sde", "software development engineer", "software developer", "software development", "developer", "programming"}],
       [keyword |-> "software development engineer",
         variations |-> {"sde", "software developer", "software development", "developer"}],
       [keyword |-> "software engineer",
         variations |-> {"sde", "software developer", "software development", "developer"}],
       [keyword |-> "developer",
         variations |-> {"sde", "software developer", "software development", "developer"}],
       [keyword |-> "programming",
         variations |-> {"sde", "software developer", "software development", "developer"}],
       [keyword |-> "software development",
         variations |-> {"sde", "software developer", "software development", "developer"}],
       [keyword |-> "software developer",
         variations |-> {"sde", "software developer", "software development", "developer"}],
       [keyword |-> "data analyst",
         variations |-> {"data analyst", "data analysis", "analyst"}],
       [keyword |-> "data scientist",
         variations |-> {"data scientist", "data science"}],
       [keyword |-> "data analysis",
         variations |-> {"data analyst", "data analysis", "analyst"}],
       [keyword |-> "analyst",
         variations |-> {"analyst", "data analyst", "business analyst"}],
       [keyword |-> "ml engineer",
         variations |-> {"machine learning", "ml engineer", "data scientist"}],
       [keyword |-> "product manager",
         variations |-> {"product manager", "product management"}],
       [keyword |-> "product management",
         variations |-> {"product manager", "product management"}],
       [keyword |-> "cashier",
         variations |-> {"cashier", "retail", "customer service"}],
       [keyword |-> "finance",
         variations |-> {"finance", "financial analyst"}],
       [keyword |-> "financial analyst",
         variations |-> {"finance", "financial analyst"}],
       [keyword |-> "marketing",
         variations |-> {"marketing", "marketing specialist"}],
       [keyword |-> "sales",
         variations |-> {"sales", "sales representative"}],
       [keyword |-> "hr",
         variations |-> {"human resources", "hr"}],
       [keyword |-> "human resources",
         variations |-> {"human resources", "hr"}] >>

\* the words _get_database_role_info does not search for
StopWords ==
    {"what", "is", "the", "and", "or", "how", "to", "for", "from", "with", "need", "skills",
     "get"}

\* search_terms of _get_database_role_info
SearchTerms(query) ==
    LET query_lower == StrLower(query)
        words == FindWords(query_lower)
    IN  UNION {RoleKeywords[i].variations :
                 i \in {j \in 1..Len(RoleKeywords) : StrHas(query_lower, RoleKeywords[j].keyword)}}
        \cup {w.word : w \in {x \in words : Len(x.word) > 2 /\ x.word \notin StopWords}}
        \cup (IF StrHas(query_lower, "developer") \/ StrHas(query_lower, "software")
              THEN {"sde"} ELSE {})

\* the ORDER BY rank of a job_roles row in search_job_roles; 0 when the row
\* does not match the WHERE clause
SearchRank(row, term) ==
    LET pattern == StrLower(term)
    IN  IF StrHas(StrLower(row.title), pattern) THEN 1
        ELSE IF StrHas(StrLower(row.department), pattern) THEN 2
        ELSE IF StrHas(StrLower(row.skills_required), pattern) THEN 3
        ELSE IF StrHas(StrLower(row.description), pattern) THEN 4
        ELSE 0

\* DatabaseManager.search_job_roles: ORDER BY rank, created_at DESC (the
\* rows of one rank latest first)
SearchJobRoles(tbl, term) ==
    LET Ranked(n) ==
            LET F[i \in 0..Len(tbl)] ==
                    IF i = 0 THEN <<>>
                    ELSE IF SearchRank(tbl[i], term) = n THEN <<tbl[i]>> \o F[i - 1]
                    ELSE F[i - 1]
            IN  F[Len(tbl)]
    IN  Ranked(1) \o Ranked(2) \o Ranked(3) \o Ranked(4)

\* what a query_documents call leaves alone
ragFixed == <<users, userSeq, seed, roles, roleSeq, indexed, loggedIn, last, sk, mt, bfs,
              cls, mentors, posts, plan, fast>>

NoResponse == [kind |-> "none", text |-> ""]

\* what _get_database_role_info can return without a failure: the role
\* information of unique_roles[0], the first role found for the first search
\* term that finds any; the terms are a set of strings, whose iteration order
\* changes from run to run
DatabaseRoleInfo(query, tbl) ==
    LET hits == {t \in SearchTerms(query) : SearchJobRoles(tbl, t) # <<>>}
    IN  IF hits = {} THEN {NoResponse}
        ELSE {[kind |-> "role_info", text |-> SearchJobRoles(tbl, t)[1].title] : t \in hits}

\* _get_database_role_info with its except clause, which returns None
GetDatabaseRoleInfo(query, tbl) == DatabaseRoleInfo(query, tbl) \cup {NoResponse}

TransitionPhrases == <<"switch", "transition", "change", "move", "from", "to">>

\* the tail of _enhanced_fallback_response: the career transition handler
\* for a query with a transition phrase, else the standard canned text
CannedResponse(query) ==
    IF FoundIn(TransitionPhrases, StrLower(query)) # <<>>
    THEN [kind |-> "transition", text |-> StrLower(query)]
    ELSE [kind |-> "canned", text |-> query]

\* RAGPipeline._enhanced_fallback_response: database role info first
EnhancedFallbackResponse(query, tbl) ==
    {IF r # NoResponse THEN r ELSE CannedResponse(query) : r \in GetDatabaseRoleInfo(query, tbl)}

\* answers the LLM chain may give
LlmAnswers ==
    { "A data analyst collects, cleans and studies data so that a company can decide on facts; the role needs SQL, spreadsheets, statistics and clear writing.",
      "Analysts study data.",
      "Sorry, the documents at hand describe several roles and none of them in enough detail to answer this question with any confidence at all." }

\* the test query_documents applies to the LLM answer: too generic or short
IsGeneric(response) ==
    \/ Cardinality(SplitBlank(response)) < 20
    \/ StrHas(response, "I don't")
    \/ StrHas(response, "I can't")
    \/ StrHas(StrLower(response), "sorry")

\* Variant: the vector store is tried whatever the database lookup returned
AfterDatabaseLookupIgnored(db_response, vectorstore) ==
    IF vectorstore = <<>> THEN (IF db_response # NoResponse THEN "save_db" ELSE "no_store")
    ELSE "retrieve"

\* where query_documents goes after the database lookup
AfterDatabaseLookup(db_response, vectorstore) ==
    IF db_response # NoResponse THEN "save_db"
    ELSE IF vectorstore = <<>> THEN "no_store"
    ELSE "retrieve"

\* db_manager.save_chat_history / log_analytics_event can fail: always for a
\* user_id without a users row (foreign key), at any time for the connection
WriteOutcomes(user_id) == IF UserExists(users, user_id) THEN {"ok", "raise"} ELSE {"raise"}

ChatRow(id, user_id, query, response) ==
    [id |-> id, user_id |-> user_id, query |-> query, response |-> response]

\* job_roles rows the chat feature may find
RagRoles ==
    << [id |-> 1, title |-> "Data Analyst", department |-> "Analytics", uploaded_by |-> 2,
        description |-> "Turns business data into reports", skills_required |-> "SQL, Excel"],
       [id |-> 2, title |-> "Cashier", department |-> "Retail", uploaded_by |-> 2,
        description |-> "Takes payments and supports data entry",
        skills_required |-> "Cash handling"] >>

RagQueries ==
    { "What skills does a Data Analyst need?", "cashier or data analyst?",
      "How to switch to marketing?", "Hello" }

\* the documents of the vector store; <<>> stands for self.vectorstore is None
VectorStores == { <<>>, <<"Data Analyst", "Cashier">> }

InitRag ==
    /\ users = SeededUsers(1)
    /\ userSeq = Len(DefaultUsers) + 1
    /\ seed = [a \in Apps |-> [idx |-> Len(DefaultUsers) + 1, phase |-> "check"]]
    /\ chat = <<>>
    /\ chatSeq = 1
    /\ \E n \in 0..Len(RagRoles) : roles = SubSeq(RagRoles, 1, n) /\ roleSeq = n + 1
    /\ indexed = <<>>
    /\ loggedIn = {}
    /\ last = Idle
    /\ sk = NoSkill
    /\ mt = NoMentor
    /\ bfs = NoBfs
    /\ LaterOff
    /\ \E q \in RagQueries, uid \in {2, 9}, vs \in VectorStores, llm \in BOOLEAN :
         rag = [phase |-> "ready", query |-> q, user_id |-> uid, vectorstore |-> vs,
                llm |-> llm, consulted |-> <<>>, invoked |-> {}, db_response |-> NoResponse,
                relevant_docs |-> <<>>, answer |-> "", replaced |-> FALSE,
                response |-> NoResponse, stage |-> "", outcome |-> ""]

\* a stage hands its response to save_chat_history and returns it, or the
\* save raises and control goes to `onRaise`
SaveAndReturn(stage, consulted, response, onRaise) ==
    \E w \in WriteOutcomes(rag.user_id) :
        IF w = "ok"
        THEN /\ rag' = [rag EXCEPT !.phase = "done", !.outcome = "returned",
                                   !.stage = stage, !.consulted = consulted,
                                   !.response = response]
             /\ chat' = Append(chat, ChatRow(chatSeq, rag.user_id, rag.query, response))
             /\ chatSeq' = chatSeq + 1
        ELSE /\ rag' = [rag EXCEPT !.phase = onRaise, !.consulted = consulted]
             /\ UNCHANGED <<chat, chatSeq>>

\* db_response = self._get_database_role_info(query), and the two tests on it
RagDatabaseLookup ==
    /\ rag.phase = "ready"
    /\ \E r \in GetDatabaseRoleInfo(rag.query, roles) :
         rag' = [rag EXCEPT !.phase = AfterDatabaseLookup(r, rag.vectorstore),
                            !.db_response = r, !.consulted = Append(@, "database")]
    /\ UNCHANGED <<chat, chatSeq>>
    /\ UNCHANGED ragFixed

\* if db_response: save_chat_history and return db_response
RagReturnDatabase ==
    /\ rag.phase = "save_db"
    /\ SaveAndReturn("database", rag.consulted, rag.db_response, "except")
    /\ UNCHANGED ragFixed

\* if not self.vectorstore: return self._enhanced_fallback_response(query)
RagNoVectorStore ==
    /\ rag.phase = "no_store"
    /\ \E r \in EnhancedFallbackResponse(rag.query, roles) :
         rag' = [rag EXCEPT !.phase = "done", !.outcome = "returned", !.stage = "fallback",
                            !.consulted = Append(@, "fallback"), !.response = r]
    /\ UNCHANGED <<chat, chatSeq>>
    /\ UNCHANGED ragFixed

\* the similarity searches (each failure is swallowed) and the tests on
\* relevant_docs and self.llm; a store returns its nearest documents whatever
\* the query, so relevant_docs is empty only when every search failed
RagRetrieve ==
    /\ rag.phase = "retrieve"
    /\ \E searched \in BOOLEAN :
         LET docs == IF searched THEN rag.vectorstore ELSE <<>>
         IN  rag' = [rag EXCEPT !.phase = IF docs # <<>> /\ rag.llm THEN "chain"
                                          ELSE IF docs # <<>> THEN "documents"
                                          ELSE "final",
                                !.relevant_docs = docs,
                                !.invoked = @ \cup {"vectorstore"},
                                !.consulted = Append(@, "retrieval")]
    /\ UNCHANGED <<chat, chatSeq>>
    /\ UNCHANGED ragFixed

\* the conversational chain: the chain raises, or it answers; a generic
\* answer is replaced by the enhanced fallback response; then the row is
\* saved and the analytics event logged; any exception in the block is
\* swallowed and control falls through to the response built from documents
RagChain ==
    /\ rag.phase = "chain"
    /\ LET entered == [rag EXCEPT !.invoked = @ \cup {"llm"}, !.consulted = Append(@, "llm")]
       IN  \/ /\ rag' = [entered EXCEPT !.phase = "documents"]
              /\ UNCHANGED <<chat, chatSeq>>
           \/ \E a \in LlmAnswers, fb \in EnhancedFallbackResponse(rag.query, roles),
                 saved \in WriteOutcomes(rag.user_id), logged \in WriteOutcomes(rag.user_id) :
                LET response == IF IsGeneric(a) THEN fb
                                ELSE [kind |-> "llm_answer", text |-> a]
                    answered == [entered EXCEPT !.answer = a, !.replaced = IsGeneric(a)]
                IN  IF saved = "raise"
                    THEN /\ rag' = [answered EXCEPT !.phase = "documents"]
                         /\ UNCHANGED <<chat, chatSeq>>
                    ELSE /\ chat' = Append(chat, ChatRow(chatSeq, rag.user_id, rag.query,
                                                         response))
                         /\ chatSeq' = chatSeq + 1
                         /\ rag' = IF logged = "raise"
                                   THEN [answered EXCEPT !.phase = "documents"]
                                   ELSE [answered EXCEPT !.phase = "done",
                                                         !.outcome = "returned",
                                                         !.stage = "llm",
                                                         !.response = response]
    /\ UNCHANGED ragFixed

\* if relevant_docs: _create_response_from_docs, save_chat_history, return
RagFromDocuments ==
    /\ rag.phase = "documents"
    /\ SaveAndReturn("documents", Append(rag.consulted, "documents"),
                     [kind |-> "document", text |-> rag.relevant_docs[1]], "except")
    /\ UNCHANGED ragFixed

\* the final fallback: _enhanced_fallback_response, save_chat_history, return
RagFinalFallback ==
    /\ rag.phase = "final"
    /\ \E r \in EnhancedFallbackResponse(rag.query, roles) :
         SaveAndReturn("fallback", Append(rag.consulted, "fallback"), r, "except")
    /\ UNCHANGED ragFixed

\* the outer except clause: _enhanced_fallback_response, save_chat_history
\* (a failure of which leaves query_documents as an exception), return
RagExcept ==
    /\ rag.phase = "except"
    /\ \E r \in EnhancedFallbackResponse(rag.query, roles), w \in WriteOutcomes(rag.user_id) :
         IF w = "ok"
         THEN /\ rag' = [rag EXCEPT !.phase = "done", !.outcome = "returned",
                                    !.stage = "fallback",
                                    !.consulted = Append(@, "fallback"), !.response = r]
              /\ chat' = Append(chat, ChatRow(chatSeq, rag.user_id, rag.query, r))
              /\ chatSeq' = chatSeq + 1
         ELSE /\ rag' = [rag EXCEPT !.phase = "done", !.outcome = "raised",
                                    !.consulted = Append(@, "fallback")]
              /\ UNCHANGED <<chat, chatSeq>>
    /\ UNCHANGED ragFixed

NextRag ==
    \/ RagDatabaseLookup
    \/ RagReturnDatabase
    \/ RagNoVectorStore
    \/ RagRetrieve
    \/ RagChain
    \/ RagFromDocuments
    \/ RagFinalFallback
    \/ RagExcept

SpecRag == InitRag /\ [][NextRag]_vars

\* the place of a stage in the order the claim gives
StageRank(stage) ==
    CASE stage = "database" -> 1
      [] stage = "retrieval" -> 2
      [] stage = "llm" -> 3
      [] stage = "documents" -> 4
      [] stage = "fallback" -> 5

\* the stages were entered in the fixed order, the database first, the vector
\* store and the LLM only with a vector store, and never after the database
\* role info yielded a response
ConsultedInOrder ==
    /\ \A i, j \in 1..Len(rag.consulted) :
         i < j => \/ StageRank(rag.consulted[i]) < StageRank(rag.consulted[j])
                  \/ rag.consulted[i] = "fallback" /\ rag.consulted[j] = "fallback"
    /\ rag.consulted # <<>> => rag.consulted[1] = "database"
    /\ rag.invoked # {} => rag.vectorstore # <<>>
    /\ "llm" \in rag.invoked => "vectorstore" \in rag.invoked
    /\ rag.db_response # NoResponse => rag.invoked = {}

\* the returned response is the one of the stage that returned it, the last
\* stage entered
ReturnedFrom(stage) ==
    /\ rag.stage = stage
    /\ rag.consulted[Len(rag.consulted)] = stage
    /\ CASE stage = "database" ->
              rag.response = rag.db_response /\ rag.response.kind = "role_info"
         [] stage = "llm" ->
              rag.response = [kind |-> "llm_answer", text |-> rag.answer]
         [] stage = "documents" ->
              rag.relevant_docs # <<>> /\ rag.response.kind = "document"
         [] stage = "fallback" ->
              rag.response.kind \in {"role_info", "transition", "canned"}

\* C10 as stated: query_documents consults its sources in a fixed order and
\* returns the first one that yields a response: database role info, then
\* (only with a vector store) retrieval with the LLM chain, then a response
\* built from the retrieved documents, then the canned fallback; when the
\* database role info yields, neither vector store nor LLM is invoked.
C10_FirstYieldingSource ==
    /\ ConsultedInOrder
    /\ (rag.phase = "done" /\ rag.outcome = "returned") =>
          \E stage \in {"database", "llm", "documents", "fallback"} : ReturnedFrom(stage)

\* C10, amended: as above, except that an LLM answer that is short or generic
\* (fewer than 20 words, or "I don't", "I can't", "sorry") is replaced within
\* the LLM stage by the enhanced fallback response, which is then returned
\* although documents were retrieved and no response was built from them.
C10_SourceOrder ==
    /\ ConsultedInOrder
    /\ (rag.phase = "done" /\ rag.outcome = "returned") =>
          \/ \E stage \in {"database", "documents", "fallback"} : ReturnedFrom(stage)
          \/ ~rag.replaced /\ ReturnedFrom("llm") /\ Cardinality(SplitBlank(rag.answer)) >= 20
          \/ /\ rag.replaced
             /\ rag.stage = "llm"
             /\ rag.consulted = <<"database", "retrieval", "llm">>
             /\ rag.relevant_docs # <<>>
             /\ rag.response.kind \in {"role_info", "transition", "canned"}
             /\ \/ Cardinality(SplitBlank(rag.answer)) < 20
                \/ StrHas(rag.answer, "I don't") \/ StrHas(rag.answer, "I can't")
                \/ StrHas(StrLower(rag.answer), "sorry")

\* a call that returned the canned text in place of a short LLM answer
C10_Witness ==
    /\ rag.phase = "done"
    /\ rag.outcome = "returned"
    /\ rag.stage = "llm"
    /\ rag.replaced
    /\ rag.answer = "Analysts study data."
    /\ rag.response.kind = "canned"
    /\ Len(chat) = 1

\* a call answered from the database although a vector store and an LLM exist
C10_WitnessDatabase ==
    /\ rag.phase = "done"
    /\ rag.outcome = "returned"
    /\ rag.stage = "database"
    /\ rag.vectorstore # <<>>
    /\ rag.llm
    /\ rag.invoked = {}

-----------------------------------------------------------------------------
\* Query classification of the two assistants
\* (src/core/personapath_rag.py, src/core/fast_personapath.py)

\* the longest query, in words
MaxWords == 3

RECURSIVE StrStrip(_)
\* s.strip(), for the blanks a query is padded with
StrStrip(s) ==
    IF Len(s) = 0 THEN s
    ELSE IF SubSeq(s, 1, 1) = " " THEN StrStrip(SubSeq(s, 2, Len(s)))
    ELSE IF SubSeq(s, Len(s), Len(s)) = " " THEN StrStrip(SubSeq(s, 1, Len(s) - 1))
    ELSE s

\* normalized_query = user_query.lower().strip()
NormalizeQuery(user_query) == StrStrip(StrLower(user_query))

\* any(word in normalized_query for word in words)
AnyWordIn(words, normalized_query) ==
    \E i \in 1..Len(words) : StrHas(normalized_query, words[i])

\* the keyword lists of PersonaPathRAG._classify_query_type
RagSalaryWords == <<"salary", "pay", "compensation", "money">>
RagSkillsWords == <<"skills", "requirements", "qualifications", "need">>
RagProgressionWords == <<"future", "career path", "progression", "growth", "next", "scope">>
RagTransitionWords == <<"switch", "transition", "change", "move", "from", "become">>
RagResponsibilitiesWords == <<"responsibilities", "duties", "day-to-day", "tasks">>
RagMentorshipWords == <<"mentor", "mentorship", "guidance">>

\* as ClassifyQueryType, with the skills test ahead of the salary test
ClassifyQueryTypeSkillsFirst(normalized_query) ==
    IF AnyWordIn(RagSkillsWords, normalized_query) THEN "skills"
    ELSE IF AnyWordIn(RagSalaryWords, normalized_query) THEN "salary"
    ELSE IF AnyWordIn(RagProgressionWords, normalized_query) THEN "career_progression"
    ELSE IF AnyWordIn(RagTransitionWords, normalized_query) THEN "career_transition"
    ELSE IF AnyWordIn(RagResponsibilitiesWords, normalized_query) THEN "responsibilities"
    ELSE IF AnyWordIn(RagMentorshipWords, normalized_query) THEN "mentorship"
    ELSE "general"

\* PersonaPathRAG._classify_query_type
ClassifyQueryType(normalized_query) ==
    IF AnyWordIn(RagSalaryWords, normalized_query) THEN "salary"
    ELSE IF AnyWordIn(RagSkillsWords, normalized_query) THEN "skills"
    ELSE IF AnyWordIn(RagProgressionWords, normalized_query) THEN "career_progression"
    ELSE IF AnyWordIn(RagTransitionWords, normalized_query) THEN "career_transition"
    ELSE IF AnyWordIn(RagResponsibilitiesWords, normalized_query) THEN "responsibilities"
    ELSE IF AnyWordIn(RagMentorshipWords, normalized_query) THEN "mentorship"
    ELSE "general"

\* PersonaPathRAG._generate_precise_response: the response type it selects and
\* hands to the generator of the response
GeneratePreciseResponse(normalized_query) == ClassifyQueryType(normalized_query)

\* the keyword lists of FastPersonaPath._generate_detailed_response
FastTransitionWords == <<"transition", "switch", "move", "change", "from", "become">>
FastSalaryWords == <<"salary", "pay", "compensation", "money", "earning">>
FastSkillsWords == <<"skills", "requirements", "qualifications", "need">>
FastGrowthWords == <<"future", "scope", "growth", "career path", "progression", "goals">>
FastResponsibilitiesWords == <<"responsibilities", "duties", "day-to-day", "tasks", "daily">>

\* FastPersonaPath._generate_detailed_response: the generator it selects
GenerateDetailedResponse(normalized_query) ==
    IF AnyWordIn(FastTransitionWords, normalized_query) THEN "transition"
    ELSE IF AnyWordIn(FastSalaryWords, normalized_query) THEN "salary"
    ELSE IF AnyWordIn(FastSkillsWords, normalized_query) THEN "skills"
    ELSE IF AnyWordIn(FastGrowthWords, normalized_query) THEN "growth"
    ELSE IF AnyWordIn(FastResponsibilitiesWords, normalized_query) THEN "responsibilities"
    ELSE "overview"

\* the words the queries are made of: keywords of every category, the keywords
\* only one assistant tests, and words that are no keyword
QueryWords ==
    {"Salary", "skills", "need", "growth", "change", "become", "tasks",
     "earning", "goals", "daily", "NEXT", "mentor", "analyst", "learning"}

\* the blanks around a query
Paddings == {"", " "}

RECURSIVE StrJoin(_, _)
\* delimiter.join(parts), on strings
StrJoin(parts, d) ==
    IF Len(parts) = 0 THEN ""
    ELSE IF Len(parts) = 1 THEN parts[1]
    ELSE parts[1] \o d \o StrJoin(Tail(parts), d)

UserQueries ==
    {pad \o StrJoin(ws, " ") \o pad : ws \in SeqsUpTo(QueryWords, MaxWords), pad \in Paddings}

InitClassify ==
    /\ users = SeededUsers(1)
    /\ userSeq = Len(DefaultUsers) + 1
    /\ seed = [a \in Apps |-> [idx |-> Len(DefaultUsers) + 1, phase |-> "check"]]
    /\ chat = <<>>
    /\ chatSeq = 1
    /\ roles = <<>>
    /\ roleSeq = 1
    /\ indexed = <<>>
    /\ loggedIn = {}
    /\ last = Idle
    /\ sk = NoSkill
    /\ mt = NoMentor
    /\ bfs = NoBfs
    /\ rag = NoRag
    /\ \E q \in UserQueries :
         cls = [phase |-> "asked", user_query |-> q, fast |-> "", rag |-> ""]
    /\ mentors = NoMentors
    /\ posts = NoPosts
    /\ plan = NoPlan
    /\ fast = NoFast

classifyFixed == <<users, userSeq, seed, apiTables, loggedIn, last, sk, mt, bfs, rag,
                   mentors, posts, plan, fast>>

\* FastPersonaPath.answer_career_question, up to the choice of the generator
FastAnswerCareerQuestion ==
    /\ cls.phase = "asked"
    /\ cls.fast = ""
    /\ cls' = [cls EXCEPT !.fast = GenerateDetailedResponse(NormalizeQuery(cls.user_query))]
    /\ UNCHANGED classifyFixed

\* PersonaPathRAG.answer_career_question, up to the choice of the response type
RagAnswerCareerQuestion ==
    /\ cls.phase = "asked"
    /\ cls.rag = ""
    /\ cls' = [cls EXCEPT !.rag = GeneratePreciseResponse(NormalizeQuery(cls.user_query))]
    /\ UNCHANGED classifyFixed

NextClassify ==
    \/ FastAnswerCareerQuestion
    \/ RagAnswerCareerQuestion

SpecClassify == InitClassify /\ [][NextClassify]_vars

\* the category of the claim behind each name the assistants use
CategoryOf(name) ==
    CASE name = "career_transition" -> "transition"
      [] name = "career_progression" -> "growth"
      [] name = "general" -> "overview"
      [] OTHER -> name

\* both assistants have answered the query
BothAnswered == cls.phase = "asked" /\ cls.fast # "" /\ cls.rag # ""

\* the keywords only one of the assistants tests
OneSidedWords == <<"earning", "goals", "daily", "next", "mentor", "guidance">>

\* the query holds a transition keyword next to a salary, skills or growth keyword
TransitionMixed(normalized_query) ==
    /\ AnyWordIn(RagTransitionWords, normalized_query)
    /\ \/ AnyWordIn(RagSalaryWords, normalized_query)
       \/ AnyWordIn(RagSkillsWords, normalized_query)
       \/ AnyWordIn(RagProgressionWords, normalized_query)

\* C11 as stated: for every query, FastPersonaPath selects the same response
\* category as PersonaPathRAG.
C11_SameCategory ==
    BothAnswered => cls.fast = CategoryOf(cls.rag)

\* C11: for every query whose normalised text holds none of the keywords only one
\* assistant tests, and no transition keyword next to a salary, skills or growth
\* keyword, FastPersonaPath selects the same response category as PersonaPathRAG.
C11_SameCategoryOnSharedKeywords ==
    (/\ BothAnswered
     /\ ~AnyWordIn(OneSidedWords, NormalizeQuery(cls.user_query))
     /\ ~TransitionMixed(NormalizeQuery(cls.user_query)))
    => cls.fast = CategoryOf(cls.rag)

\* a padded, capitalised query with keywords of two categories both assistants
\* test, answered by both
C11_Witness ==
    /\ BothAnswered
    /\ cls.user_query = " Salary skills tasks "
    /\ cls.fast = "salary"
    /\ cls.rag = "salary"

-----------------------------------------------------------------------------
\* Construction of DatabaseManager and AuthManager, again and again
\* (src/core/database_pg.py, src/core/auth.py)

\* the most constructions of DatabaseManager
MaxInits == 3

\* job_roles of DatabaseManager._insert_sample_data: the titles
SampleJobRoles ==
    <<"Software Developer", "Senior Software Engineer", "Data Scientist", "Data Analyst",
      "UI/UX Designer", "Product Manager", "Business Analyst", "Project Manager",
      "Customer Success Manager", "Sales Representative", "Marketing Specialist",
      "Cashier", "Customer Support Specialist", "Engineering Manager", "HR Manager",
      "DevOps Engineer", "Quality Assurance Engineer", "Financial Analyst",
      "Content Writer", "Operations Coordinator">>

\* mentors of DatabaseManager._insert_sample_data: the names
SampleMentors ==
    <<"Sarah Chen", "Michael Rodriguez", "Lisa Wang", "Alex Thompson", "David Kim">>

\* INSERT INTO job_roles (...) VALUES (..., 2) ON CONFLICT DO NOTHING, for every
\* sample role: job_roles has no unique constraint but its SERIAL primary key,
\* so no INSERT ever conflicts
InsertSampleJobRoles(tbl, id) ==
    tbl \o [k \in 1..Len(SampleJobRoles) |->
               [id |-> id + k - 1, title |-> SampleJobRoles[k], uploaded_by |-> 2]]

RECURSIVE InsertSampleMentors(_, _, _)
\* INSERT INTO mentors (...) ON CONFLICT (name) DO NOTHING, for every sample
\* mentor; name is UNIQUE, and every statement draws a value from the id sequence
InsertSampleMentors(tbl, id, k) ==
    IF k > Len(SampleMentors) THEN tbl
    ELSE InsertSampleMentors(
             IF \E i \in 1..Len(tbl) : tbl[i].name = SampleMentors[k] THEN tbl
             ELSE Append(tbl, [id |-> id, name |-> SampleMentors[k]]),
             id + 1, k + 1)

RECURSIVE CreateDefaultUsers(_, _, _)
\* AuthManager._create_default_users, run from start to end:
\* if not self.get_user_by_username(username): self.register_user(...)
CreateDefaultUsers(tbl, id, k) ==
    IF k > Len(DefaultUsers) THEN [users |-> tbl, seq |-> id]
    ELSE LET d == DefaultUsers[k]
         IN  IF GetUserByUsername(tbl, d.username) # NoUser
             THEN CreateDefaultUsers(tbl, id, k + 1)
             ELSE CreateDefaultUsers(
                      RegisterUser(tbl, id, d.username, d.password, d.role).users,
                      id + 1, k + 1)

\* what can go wrong with the connection during _insert_sample_data
InitFaults == {"none", "no connection", "lost before commit"}

\* the tables the seeding writes
SeededTables == [users |-> users, roles |-> roles, mentors |-> mentors.rows]

InitStartup ==
    /\ users = <<>>
    /\ userSeq = 1
    /\ seed = [a \in Apps |-> [idx |-> 1, phase |-> "database"]]
    /\ chat = <<>>
    /\ chatSeq = 1
    /\ roles = <<>>
    /\ roleSeq = 1
    /\ indexed = <<>>
    /\ loggedIn = {}
    /\ last = [op |-> "none", inits |-> 0, committed |-> 0,
               pre |-> [users |-> <<>>, roles |-> <<>>, mentors |-> <<>>]]
    /\ sk = NoSkill
    /\ mt = NoMentor
    /\ bfs = NoBfs
    /\ rag = NoRag
    /\ cls = NoCls
    /\ mentors = NoMentors
    /\ posts = NoPosts
    /\ plan = NoPlan
    /\ fast = NoFast

startupFixed == <<chat, chatSeq, indexed, loggedIn, sk, mt, bfs, rag, cls, posts, plan, fast>>

\* DatabaseManager() of core/database_pg.py: init_database creates the tables
\* that do not exist and runs _insert_sample_data, one transaction: the demo
\* users, the job roles (uploaded_by = 2 is a foreign key into users), the
\* mentors, commit. Any exception is printed and the connection closed, which
\* rolls the transaction back; the ids drawn from the sequences stay drawn.
InitDatabase(a) ==
    /\ seed[a].phase = "database"
    /\ last.inits < MaxInits
    /\ \E fault \in InitFaults :
         LET t_users == InsertDemoUsers(users, userSeq, 1)
             fk_ok == \E i \in 1..Len(t_users) : t_users[i].id = 2
             committed == fault = "none" /\ fk_ok
         IN  /\ users' = IF committed THEN t_users ELSE users
             /\ userSeq' = IF fault = "no connection" THEN userSeq
                           ELSE userSeq + Len(DemoUsers)
             /\ roles' = IF committed THEN InsertSampleJobRoles(roles, roleSeq) ELSE roles
             /\ roleSeq' = IF fault = "no connection" THEN roleSeq
                           ELSE IF fk_ok THEN roleSeq + Len(SampleJobRoles)
                           ELSE roleSeq + 1
             /\ mentors' = IF fault = "no connection" \/ ~fk_ok THEN mentors
                           ELSE [rows |-> IF committed
                                          THEN InsertSampleMentors(mentors.rows, mentors.seq, 1)
                                          ELSE mentors.rows,
                                 seq |-> mentors.seq + Len(SampleMentors)]
             /\ last' = [op |-> "init_database", inits |-> last.inits + 1,
                         committed |-> last.committed + (IF committed THEN 1 ELSE 0),
                         pre |-> SeededTables]
             \* without a connection the constructor raises and the application
             \* does not come up
             /\ seed' = [seed EXCEPT ![a].phase = IF fault = "no connection"
                                                  THEN "database" ELSE "auth"]
    /\ UNCHANGED startupFixed

\* AuthManager(db_manager): _create_default_users
InitAuthManager(a) ==
    /\ seed[a].phase = "auth"
    /\ LET res == CreateDefaultUsers(users, userSeq, 1)
       IN  /\ users' = res.users
           /\ userSeq' = res.seq
    /\ last' = [last EXCEPT !.op = "create_default_users", !.pre = SeededTables]
    /\ seed' = [seed EXCEPT ![a].phase = "up"]
    /\ UNCHANGED <<roles, roleSeq, mentors>>
    /\ UNCHANGED startupFixed

\* the application is stopped; its next start constructs both managers again
Restart(a) ==
    /\ seed[a].phase = "up"
    /\ seed' = [seed EXCEPT ![a].phase = "database"]
    /\ last' = [last EXCEPT !.op = "restart", !.pre = SeededTables]
    /\ UNCHANGED <<users, userSeq, roles, roleSeq, mentors>>
    /\ UNCHANGED startupFixed

NextStartup ==
    \/ \E a \in Apps : InitDatabase(a)
    \/ \E a \in Apps : InitAuthManager(a)
    \/ \E a \in Apps : Restart(a)

SpecStartup == InitStartup /\ [][NextStartup]_vars

\* C12: a construction of DatabaseManager that follows a committed one leaves
\* the users, mentors and job_roles tables with the rows they had before it;
\* so does a construction of AuthManager that follows a completed one: no
\* seeded user, mentor or job role is duplicated.
C12_InitIdempotent ==
    /\ (last.op = "init_database" /\ last.pre.roles # <<>>) => SeededTables = last.pre
    /\ (last.op = "create_default_users"
          /\ \A k \in 1..Len(DefaultUsers) :
                GetUserByUsername(last.pre.users, DefaultUsers[k].username) # NoUser)
       => SeededTables = last.pre

-----------------------------------------------------------------------------
\* POST /roles/ served by several processes (src/api_main.py, src/core/database.py)

\* the most POST /roles/ requests
MaxPosts == 2

\* the most roles saved from the HR dashboard meanwhile
MaxUploads == 1

Requests == 1..MaxPosts

\* the server processes; each runs its handlers (async def without an await)
\* one at a time
Workers == {"worker 1", "worker 2"}

NoRole == [id |-> 0, title |-> "", uploaded_by |-> 0, skills_required |-> <<>>]

\* DatabaseManager.save_job_role: INSERT INTO job_roles ..., commit
SaveJobRole(tbl, id, title, uploaded_by) ==
    Append(tbl, [id |-> id, title |-> title, uploaded_by |-> uploaded_by,
                 skills_required |-> <<>>])

\* whether the process is between the statements of a handler
Busy(w) == \E r \in Requests : posts[r].worker = w /\ posts[r].pc \in {"saved", "read"}

InitPosts ==
    /\ users = SeededUsers(1)
    /\ userSeq = Len(DefaultUsers) + 1
    /\ seed = [a \in Apps |-> [idx |-> Len(DefaultUsers) + 1, phase |-> "check"]]
    /\ chat = <<>>
    /\ chatSeq = 1
    /\ roles = <<>>
    /\ roleSeq = 1
    /\ indexed = <<>>
    /\ loggedIn = {}
    /\ last = Idle
    /\ sk = NoSkill
    /\ mt = NoMentor
    /\ bfs = NoBfs
    /\ rag = NoRag
    /\ cls = NoCls
    /\ mentors = NoMentors
    /\ posts = [r \in Requests |-> [pc |-> "new", worker |-> "", role_id |-> 0,
                                    read |-> NoRole, status |-> 0]]
    /\ plan = NoPlan
    /\ fast = NoFast

postsFixed == <<users, userSeq, seed, chat, chatSeq, loggedIn, last, sk, mt, bfs, rag,
                cls, mentors, plan, fast>>

\* create_job_role, first statement: role_id = db_manager.save_job_role(...);
\* an exception becomes HTTP 500
PostSaveJobRole(r) ==
    /\ posts[r].pc = "new"
    /\ \E w \in Workers, fault \in {""} \cup Errors :
         /\ ~Busy(w)
         /\ IF fault = ""
            THEN /\ roles' = SaveJobRole(roles, roleSeq, "role", 2)
                 /\ roleSeq' = roleSeq + 1
                 /\ posts' = [posts EXCEPT ![r].pc = "saved", ![r].worker = w,
                                           ![r].role_id = roleSeq]
            ELSE /\ posts' = [posts EXCEPT ![r].pc = "failed", ![r].worker = w,
                                           ![r].status = 500]
                 /\ UNCHANGED <<roles, roleSeq>>
    /\ UNCHANGED indexed
    /\ UNCHANGED postsFixed

\* second statement: roles = db_manager.get_job_roles(1)
PostGetJobRoles(r) ==
    /\ posts[r].pc = "saved"
    /\ posts' = [posts EXCEPT ![r].pc = "read", ![r].read = GetJobRoles(roles, 1)[1]]
    /\ UNCHANGED <<roles, roleSeq, indexed>>
    /\ UNCHANGED postsFixed

\* third statement: rag_pipeline.process_documents([roles[0]]), and the return
PostProcessDocuments(r) ==
    /\ posts[r].pc = "read"
    /\ indexed' = Append(indexed, posts[r].read.id)
    /\ posts' = [posts EXCEPT ![r].pc = "done", ![r].status = 200]
    /\ UNCHANGED <<roles, roleSeq>>
    /\ UNCHANGED postsFixed

\* the Save button of the HR dashboard (pages/hr_dashboard.py), in the
\* Streamlit process: save_job_role without any indexing
HrSaveJobRole ==
    /\ Cardinality({i \in 1..Len(roles) : roles[i].title = "upload"}) < MaxUploads
    /\ roles' = SaveJobRole(roles, roleSeq, "upload", 2)
    /\ roleSeq' = roleSeq + 1
    /\ UNCHANGED <<indexed, posts>>
    /\ UNCHANGED postsFixed

NextPosts ==
    \/ \E r \in Requests : PostSaveJobRole(r)
    \/ \E r \in Requests : PostGetJobRoles(r)
    \/ \E r \in Requests : PostProcessDocuments(r)
    \/ HrSaveJobRole

SpecPosts == InitPosts /\ [][NextPosts]_vars

\* how often a role was handed to process_documents
TimesIndexed(id) == Cardinality({i \in 1..Len(indexed) : indexed[i] = id})

\* C13: in every interleaving of POST /roles/ requests the role a request hands
\* to process_documents is the role this request created, and once the requests
\* have returned every role they created has been indexed exactly once.
C13_IndexesOwnRole ==
    /\ \A r \in Requests :
          posts[r].pc \in {"read", "done"} => posts[r].read.id = posts[r].role_id
    /\ (\A r \in Requests : posts[r].pc \in {"done", "failed"})
       => \A r \in Requests : posts[r].pc = "done" => TimesIndexed(posts[r].role_id) = 1

-----------------------------------------------------------------------------
\* Claims about the chat history and the exceptions of query_documents (SpecRag)

\* the rows of chat_history that hold this call's user and query
RowsOfCall == {i \in 1..Len(chat) : chat[i].user_id = rag.user_id /\ chat[i].query = rag.query}

\* C14: every call of query_documents that returns a response has added exactly
\* one chat_history row, holding the user id, the query and the returned
\* response: never none, never two.
C14_ExactlyOneChatRow ==
    (rag.phase = "done" /\ rag.outcome = "returned") =>
        /\ Cardinality(RowsOfCall) = 1
        /\ \A i \in RowsOfCall : chat[i].response = rag.response

\* C15: query_documents never propagates an exception to its caller: whichever
\* step fails, the call ends by returning a response.
C15_NeverPropagates ==
    rag.phase = "done" => (rag.outcome = "returned" /\ rag.response # NoResponse)

-----------------------------------------------------------------------------
\* analyze_skill_gap on a job_roles table of any size (SpecSkillTable)

\* the most rows job_roles holds beyond the default limit of get_job_roles
MaxExtra == 2

\* a job_roles table of n rows, the oldest first
RoleTable(n) ==
    [i \in 1..n |-> [id |-> i, title |-> "Data Analyst", uploaded_by |-> 2,
                     skills_required |-> <<"S", "Q", ",", "P", "y">>]]

InitSkillTable ==
    /\ users = SeededUsers(1)
    /\ userSeq = Len(DefaultUsers) + 1
    /\ seed = [a \in Apps |-> [idx |-> Len(DefaultUsers) + 1, phase |-> "check"]]
    /\ chat = <<>>
    /\ chatSeq = 1
    /\ \E n \in 0..(RoleLimit + MaxExtra) : roles = RoleTable(n) /\ roleSeq = n + 1
    /\ indexed = <<>>
    /\ loggedIn = {}
    /\ last = Idle
    /\ \E current \in SeqsUpTo(EnteredSkills, 1),
          id \in {1, 2, RoleLimit, RoleLimit + 1, RoleLimit + MaxExtra} :
         sk = [phase |-> "ready", current_skills |-> current, target_role_id |-> id,
               result |-> NoAnalysis]
    /\ mt = NoMentor
    /\ bfs = NoBfs
    /\ rag = NoRag
    /\ LaterOff

SpecSkillTable == InitSkillTable /\ [][NextSkill]_vars

\* C16: analyze_skill_gap returns the error 'Target role not found' exactly when
\* no row of job_roles has the target id; whenever such a row exists, however
\* many rows the table holds, the analysis of that role is returned.
C16_NotFoundOnlyWhenAbsent ==
    sk.phase = "done" =>
        LET rows == {i \in 1..Len(roles) : roles[i].id = sk.target_role_id}
        IN  /\ sk.result.error = "Target role not found" <=> rows = {}
            /\ rows # {} => /\ sk.result.error = ""
                            /\ \E i \in rows : sk.result.target_role = roles[i].title

-----------------------------------------------------------------------------
\* Claim about the handlers of the skill analysis and of the mentor
\* recommendations (SpecApi)

\* C17: an authenticated request to POST /career/skill-analysis or to
\* GET /mentors/recommendations calls the core function with arguments the
\* function accepts and returns its result: the response is not HTTP 500.
C17_CoreCallAccepted ==
    (last.op \in {"analyze_skills", "get_mentor_recommendations"} /\ last.uid # -1) =>
        /\ last.raised # "TypeError"
        /\ last.status = 200
        /\ last.body \in {"analysis", "recommendations"}

-----------------------------------------------------------------------------
\* MentorSystem._calculate_mentor_score on one mentor (SpecScore)

\* the mentors scored: the pool, and a mentor without previous roles
ScoredMentors ==
    MentorPool \cup
    { [id |-> 6, name |-> "Kim Lee", current_role |-> "Sales Manager",
       previous_roles |-> "", expertise |-> "Sales Strategy, Leadership"] }

ScoredProfiles ==
    UserProfiles \cup
    { [current_role |-> "", goals |-> "Growth and LEADERSHIP"],
      [current_role |-> "Software Engineer", goals |-> ""],
      [current_role |-> "QA Tester", goals |-> "learn product strategy"] }

ScoredTargets == TargetRoles \cup {"product manager", "Data Analyst", "Sales"}

InitScore ==
    /\ users = SeededUsers(1)
    /\ userSeq = Len(DefaultUsers) + 1
    /\ seed = [a \in Apps |-> [idx |-> Len(DefaultUsers) + 1, phase |-> "check"]]
    /\ chat = <<>>
    /\ chatSeq = 1
    /\ roles = <<>>
    /\ roleSeq = 1
    /\ indexed = <<>>
    /\ loggedIn = {}
    /\ last = Idle
    /\ sk = NoSkill
    /\ \E m \in ScoredMentors, p \in ScoredProfiles, r \in ScoredTargets :
         mt = [phase |-> "ready", mentor |-> m, user_profile |-> p, target_role |-> r,
               score |-> 0]
    /\ bfs = NoBfs
    /\ rag = NoRag
    /\ LaterOff

\* score = self._calculate_mentor_score(mentor, user_profile, target_role) in
\* the loop of find_mentors; .lower() on a NULL column raises
CalculateMentorScoreCall ==
    /\ mt.phase = "ready"
    /\ mt' = IF NullText \in {mt.mentor.current_role, mt.mentor.previous_roles,
                             mt.mentor.expertise}
             THEN [mt EXCEPT !.phase = "raised"]
             ELSE [mt EXCEPT !.phase = "done",
                             !.score = CalculateMentorScore(mt.mentor, mt.user_profile,
                                                            mt.target_role)]
    /\ UNCHANGED <<users, userSeq, seed, apiTables, loggedIn, last, sk, bfs, rag,
                 cls, mentors, posts, plan, fast>>

NextScore == CalculateMentorScoreCall

SpecScore == InitScore /\ [][NextScore]_vars

\* how many keywords of a role (the role itself and each key term it contains)
\* occur in a text
RoleKeywordHits(role, text) ==
    (IF StrHas(text, StrLower(role)) THEN 1 ELSE 0)
    + Cardinality({i \in 1..Len(RoleKeyTerms) :
                      StrHas(StrLower(role), RoleKeyTerms[i]) /\ StrHas(text, RoleKeyTerms[i])})

\* how many career keywords of the goals occur in a text
GoalKeywordHits(goals, text) ==
    Cardinality({i \in 1..Len(CareerKeywords) :
                    StrHas(StrLower(goals), CareerKeywords[i]) /\ StrHas(text, CareerKeywords[i])})

\* C18: the score is a sum of non-negative terms: 30 if the target role occurs
\* in the mentor's current role, 20 if it occurs in the previous roles, 5 for
\* each target-role keyword found in the expertise, 10 for each user-role
\* keyword found in the previous roles, 8 for each goal keyword found in the
\* expertise, 5 if the mentor lists more than two previous roles; with no
\* target role the first three terms are 0.
C18_AdditiveScore ==
    mt.phase = "done" =>
        LET cur == StrLower(mt.mentor.current_role)
            prev == StrLower(mt.mentor.previous_roles)
            expertise == StrLower(mt.mentor.expertise)
            target == StrLower(mt.target_role)
            user_role == mt.user_profile.current_role
            goals == mt.user_profile.goals
            hasTarget == mt.target_role # ""
            t1 == IF hasTarget /\ StrHas(cur, target) THEN 30 ELSE 0
            t2 == IF hasTarget /\ StrHas(prev, target) THEN 20 ELSE 0
            t3 == IF hasTarget THEN 5 * RoleKeywordHits(mt.target_role, expertise) ELSE 0
            t4 == IF user_role # "" THEN 10 * RoleKeywordHits(user_role, prev) ELSE 0
            t5 == 8 * GoalKeywordHits(goals, expertise)
            t6 == IF Cardinality({i \in 1..Len(prev) : SubSeq(prev, i, i) = ","}) >= 2
                  THEN 5 ELSE 0
        IN  /\ mt.score = t1 + t2 + t3 + t4 + t5 + t6
            /\ mt.score >= 0
            /\ ~hasTarget => mt.score = t4 + t5 + t6

\* a mentor scored on four terms: the target role in the current role (30), a
\* keyword of the target in the expertise (5), a keyword of the user's role in
\* the previous roles (10), a goal keyword in the expertise (8)
C18_Witness ==
    /\ mt.phase = "done"
    /\ mt.mentor.name = "Sarah Chen"
    /\ mt.target_role = "Product Manager"
    /\ mt.user_profile.current_role = "Data Analyst"
    /\ mt.score = 53

\* no target role and no user role: the score comes from the goals alone
C18_WitnessNoTarget ==
    /\ mt.phase = "done"
    /\ mt.target_role = ""
    /\ mt.user_profile.current_role = ""
    /\ mt.score = 8

-----------------------------------------------------------------------------
\* CareerPlanner.generate_career_roadmap (src/core/career_planner.py)

\* str.upper() of one character
UpperChar(c) ==
    CASE c = "a" -> "A" [] c = "b" -> "B" [] c = "c" -> "C" [] c = "d" -> "D" [] c = "e" -> "E"
      [] c = "f" -> "F" [] c = "g" -> "G" [] c = "h" -> "H" [] c = "i" -> "I" [] c = "j" -> "J"
      [] c = "k" -> "K" [] c = "l" -> "L" [] c = "m" -> "M" [] c = "n" -> "N" [] c = "o" -> "O"
      [] c = "p" -> "P" [] c = "q" -> "Q" [] c = "r" -> "R" [] c = "s" -> "S" [] c = "t" -> "T"
      [] c = "u" -> "U" [] c = "v" -> "V" [] c = "w" -> "W" [] c = "x" -> "X" [] c = "y" -> "Y"
      [] c = "z" -> "Z"
      [] OTHER -> c

RECURSIVE TitleFrom(_, _, _)
\* s.title() from position i on: a letter after a letter is lower-cased, any
\* other letter upper-cased
TitleFrom(s, i, afterLetter) ==
    IF i > Len(s) THEN ""
    ELSE LET c == SubSeq(s, i, i)
         IN  (IF afterLetter THEN LowerChar(c) ELSE UpperChar(c))
             \o TitleFrom(s, i + 1, LowerChar(c) # UpperChar(c))

RECURSIVE StrRemove(_, _)
\* s.replace(word, '')
StrRemove(s, word) ==
    IF Len(s) < Len(word) THEN s
    ELSE IF SubSeq(s, 1, Len(word)) = word
    THEN StrRemove(SubSeq(s, Len(word) + 1, Len(s)), word)
    ELSE SubSeq(s, 1, 1) \o StrRemove(SubSeq(s, 2, Len(s)), word)

\* s.endswith(word)
EndsWith(s, word) ==
    Len(s) >= Len(word) /\ SubSeq(s, Len(s) - Len(word) + 1, Len(s)) = word

\* a path element that is None
NoneRole == "<None>"

\* CareerPlanner._get_role_level
GetRoleLevel(role) ==
    LET role_lower == StrLower(role)
    IN  IF AnyWordIn(<<"ceo", "cto", "cpo", "chief">>, role_lower) THEN 7
        ELSE IF AnyWordIn(<<"vp", "vice president">>, role_lower) THEN 6
        ELSE IF StrHas(role_lower, "director") THEN 5
        ELSE IF AnyWordIn(<<"manager", "lead">>, role_lower) THEN 4
        ELSE IF AnyWordIn(<<"senior", "sr", "principal">>, role_lower) THEN 3
        ELSE IF AnyWordIn(<<"associate", "jr", "junior">>, role_lower) THEN 1
        ELSE 2

RECURSIVE RemovePrefixes(_, _, _)
\* for prefix in [...]: role_lower = role_lower.replace(prefix, '').strip()
RemovePrefixes(s, words, k) ==
    IF k > Len(words) THEN s
    ELSE RemovePrefixes(StrStrip(StrRemove(s, words[k])), words, k + 1)

RECURSIVE RemoveSuffixes(_, _, _)
\* for suffix in [...]: if role_lower.endswith(suffix): replace and strip
RemoveSuffixes(s, words, k) ==
    IF k > Len(words) THEN s
    ELSE RemoveSuffixes(IF EndsWith(s, words[k]) THEN StrStrip(StrRemove(s, words[k])) ELSE s,
                        words, k + 1)

\* CareerPlanner._extract_base_role
ExtractBaseRole(role) ==
    LET stripped == RemovePrefixes(StrLower(role),
                        <<"senior", "sr", "junior", "jr", "associate", "principal", "staff",
                          "lead">>, 1)
    IN  TitleFrom(RemoveSuffixes(stripped, <<"manager", "director", "lead">>, 1), 1, FALSE)

\* CareerPlanner._construct_role_at_level; no return statement is reached for a
\* level above 5, and the call returns None
ConstructRoleAtLevel(base_role, target_base, level) ==
    IF level >= 4
    THEN IF level = 4 THEN base_role \o " Manager"
         ELSE IF level = 5 THEN base_role \o " Director"
         ELSE NoneRole
    ELSE LET prefix == IF level = 1 THEN "Junior" ELSE IF level = 3 THEN "Senior" ELSE ""
         IN  StrStrip(prefix \o " " \o base_role)

\* CareerPlanner._generate_intermediate_roles
GenerateIntermediateRoles(current, target) ==
    LET current_level == GetRoleLevel(current)
        level_diff == GetRoleLevel(target) - current_level
    IN  [i \in 1..(level_diff - 1) |->
            ConstructRoleAtLevel(ExtractBaseRole(current), ExtractBaseRole(target),
                                 current_level + i)]

\* CareerPlanner._generate_alternative_path
GenerateAlternativePath(current, target) ==
    LET current_level == GetRoleLevel(current)
        target_level == GetRoleLevel(target)
        between ==
            IF target_level > current_level THEN GenerateIntermediateRoles(current, target)
            ELSE IF target_level < current_level
            THEN <<"Transition Period (Skill building and networking in "
                   \o ExtractBaseRole(target) \o " domain)">>
            ELSE <<>>
    IN  <<current>> \o between \o <<target>>

RECURSIVE BfsLoop(_, _, _, _)
\* the while loop of _bfs_path_search
BfsLoop(queue, visited, end, paths) ==
    IF queue = <<>> THEN NoPath
    ELSE LET popped == PopLeft(queue)
             scan == ScanNextRoles(NextRoles(paths, popped.entry.role), popped.entry.path,
                                   end, visited, popped.rest)
         IN  IF scan.returned THEN scan.result
             ELSE BfsLoop(scan.queue, scan.visited, end, paths)

\* CareerPlanner._bfs_path_search
BfsPathSearch(start, end, paths) ==
    IF start = end THEN [found |-> TRUE, path |-> <<start>>]
    ELSE BfsLoop(<<[role |-> start, path |-> <<start>>]>>, {start}, end, paths)

\* self.career_paths, in the order of the dictionary
Departments == <<EngineeringPaths, ProductPaths, DataPaths, MarketingPaths, SalesPaths>>

\* as FindCareerPath, with the role names as given
FindCareerPathUntrimmed(current, target) ==
    IF current = target THEN [found |-> TRUE, path |-> <<current>>]
    ELSE LET hits == {k \in 1..Len(Departments) :
                         /\ current \in DOMAIN Departments[k]
                         /\ BfsPathSearch(current, target, Departments[k]).found}
         IN  IF hits = {} THEN NoPath
             ELSE BfsPathSearch(current, target,
                                Departments[CHOOSE k \in hits : \A j \in hits : k <= j])

\* CareerPlanner._find_career_path
FindCareerPath(current, target) ==
    LET c == StrStrip(current)
        t == StrStrip(target)
    IN  IF c = t THEN [found |-> TRUE, path |-> <<c>>]
        ELSE LET hits == {k \in 1..Len(Departments) :
                             /\ c \in DOMAIN Departments[k]
                             /\ BfsPathSearch(c, t, Departments[k]).found}
             IN  IF hits = {} THEN NoPath
                 ELSE BfsPathSearch(c, t, Departments[CHOOSE k \in hits : \A j \in hits : k <= j])

\* CareerPlanner._calculate_timeline
CalculateTimeline(path) ==
    LET steps == Len(path) - 1
    IN  IF steps <= 1 THEN "6-12 months"
        ELSE IF steps <= 2 THEN "1-2 years"
        ELSE IF steps <= 3 THEN "2-4 years"
        ELSE "4-6 years"

\* CareerPlanner._create_detailed_steps: the number and the two roles of each step
CreateDetailedSteps(path) ==
    [i \in 1..(Len(path) - 1) |->
        [step_number |-> i, from_role |-> path[i], to_role |-> path[i + 1]]]

NoRoadmap == [error |-> "", current_role |-> "", target_role |-> "", path |-> <<>>,
              total_steps |-> 0, estimated_timeline |-> "", steps |-> <<>>]

\* CareerPlanner.generate_career_roadmap; a None among the roles of the path
\* makes _create_detailed_steps raise (.lower() of None), and the except clause
\* returns {'error': ...}
CareerRoadmap(current_role, target_role) ==
    LET direct == FindCareerPath(current_role, target_role)
        path == IF direct.found /\ direct.path # <<>> THEN direct.path
                ELSE GenerateAlternativePath(current_role, target_role)
    IN  IF \E i \in 1..Len(path) : path[i] = NoneRole
        THEN [NoRoadmap EXCEPT !.error = "'NoneType' object has no attribute 'lower'"]
        ELSE [error |-> "",
              current_role |-> current_role,
              target_role |-> target_role,
              path |-> path,
              total_steps |-> Len(path) - 1,
              estimated_timeline |-> CalculateTimeline(path),
              steps |-> CreateDetailedSteps(path)]

\* role names a user may enter
RoadmapRoles ==
    {"Junior Developer", " Junior Developer ", "Engineering Manager", "VP Engineering",
     "Product Manager", "Data Analyst", "Barista", "Senior Barista", "Junior Barista ",
     "Cafe Director", "CEO"}

InitRoadmap ==
    /\ users = SeededUsers(1)
    /\ userSeq = Len(DefaultUsers) + 1
    /\ seed = [a \in Apps |-> [idx |-> Len(DefaultUsers) + 1, phase |-> "check"]]
    /\ chat = <<>>
    /\ chatSeq = 1
    /\ roles = <<>>
    /\ roleSeq = 1
    /\ indexed = <<>>
    /\ loggedIn = {}
    /\ last = Idle
    /\ sk = NoSkill
    /\ mt = NoMentor
    /\ bfs = NoBfs
    /\ rag = NoRag
    /\ cls = NoCls
    /\ mentors = NoMentors
    /\ posts = NoPosts
    /\ \E current \in RoadmapRoles, target \in RoadmapRoles :
         plan = [phase |-> "ready", current_role |-> current, target_role |-> target,
                 roadmap |-> NoRoadmap]
    /\ fast = NoFast

\* the career tab of the employee dashboard and POST /career/roadmap call
\* generate_career_roadmap
GenerateCareerRoadmapCall ==
    /\ plan.phase = "ready"
    /\ plan' = [plan EXCEPT !.phase = "done",
                            !.roadmap = CareerRoadmap(plan.current_role, plan.target_role)]
    /\ UNCHANGED <<users, userSeq, seed, apiTables, loggedIn, last, sk, mt, bfs, rag,
                   cls, mentors, posts, fast>>

NextRoadmap == GenerateCareerRoadmapCall

SpecRoadmap == InitRoadmap /\ [][NextRoadmap]_vars

\* the steps of a roadmap follow its path
StepsFollowPath(r) ==
    /\ r.total_steps = Len(r.path) - 1
    /\ r.total_steps = Len(r.steps)
    /\ \A i \in 1..Len(r.steps) :
          /\ r.steps[i].step_number = i
          /\ r.steps[i].from_role = r.path[i]
          /\ r.steps[i].to_role = r.path[i + 1]

\* the target role can be reached from the current role, both trimmed, within a
\* department of career_paths that lists the current role
OnCareerPaths(current, target) ==
    \/ StrStrip(current) = StrStrip(target)
    \/ \E k \in 1..Len(Departments) :
          /\ StrStrip(current) \in DOMAIN Departments[k]
          /\ Reachable(Departments[k], StrStrip(current), StrStrip(target))

\* C19 as stated: every roadmap returned without an error has a path that
\* starts at the trimmed current role and ends at the trimmed target role,
\* total_steps = len(path) - 1 = len(steps), and the step numbered i leads from
\* the i-th role of the path to the next; when current equals target the path
\* has one element and there are no steps.
C19_RoadmapShape ==
    (plan.phase = "done" /\ plan.roadmap.error = "") =>
        LET r == plan.roadmap
        IN  /\ Len(r.path) >= 1
            /\ r.path[1] = StrStrip(plan.current_role)
            /\ r.path[Len(r.path)] = StrStrip(plan.target_role)
            /\ StepsFollowPath(r)
            /\ plan.current_role = plan.target_role => (Len(r.path) = 1 /\ r.steps = <<>>)

\* C19, amended: as above, except that the path starts at the current role
\* and ends at the target role as they were given, untrimmed, when it is the
\* alternative path (no path from the one to the other in career_paths).
C19_RoadmapShapeAsGiven ==
    (plan.phase = "done" /\ plan.roadmap.error = "") =>
        LET r == plan.roadmap
        IN  /\ Len(r.path) >= 1
            /\ IF OnCareerPaths(plan.current_role, plan.target_role)
               THEN /\ r.path[1] = StrStrip(plan.current_role)
                    /\ r.path[Len(r.path)] = StrStrip(plan.target_role)
               ELSE /\ Len(r.path) >= 2
                    /\ r.path[1] = plan.current_role
                    /\ r.path[Len(r.path)] = plan.target_role
            /\ StepsFollowPath(r)
            /\ plan.current_role = plan.target_role => (Len(r.path) = 1 /\ r.steps = <<>>)

\* a roadmap of two steps found in career_paths for a current role entered
\* with blanks around it
C19_Witness ==
    /\ plan.phase = "done"
    /\ plan.roadmap.error = ""
    /\ plan.current_role = " Junior Developer "
    /\ plan.roadmap.path = <<"Junior Developer", "Senior Developer", "Engineering Manager">>
    /\ plan.roadmap.total_steps = 2

\* an alternative path with an intermediate role, for a current role entered
\* with a blank behind it
C19_WitnessAlternative ==
    /\ plan.phase = "done"
    /\ plan.roadmap.error = ""
    /\ plan.current_role = "Junior Barista "
    /\ plan.roadmap.path[1] = "Junior Barista "
    /\ Len(plan.roadmap.path) = 3

(***************************************************************************)
(* FastPersonaPath: the cache of job roles.                                *)
(***************************************************************************)
MaxAdded == 1       \* job roles saved while the assistant is in use

\* FastPersonaPath._get_role_mapping: the keys and official titles, in the
\* order of the dictionary
RoleMapping ==
    << <<"sde", "Software Developer">>, <<"software engineer", "Software Developer">>,
       <<"software development", "Software Developer">>,
       <<"software developer", "Software Developer">>, <<"developer", "Software Developer">>,
       <<"programmer", "Software Developer">>, <<"coding", "Software Developer">>,
       <<"programming", "Software Developer">>, <<"data science", "Data Scientist">>,
       <<"data scientist", "Data Scientist">>, <<"ml engineer", "Data Scientist">>,
       <<"machine learning", "Data Scientist">>, <<"data analyst", "Data Analyst">>,
       <<"analyst", "Data Analyst">>, <<"data analysis", "Data Analyst">>,
       <<"ui/ux", "UI/UX Designer">>, <<"designer", "UI/UX Designer">>,
       <<"ux designer", "UI/UX Designer">>, <<"ui designer", "UI/UX Designer">>,
       <<"product manager", "Product Manager">>, <<"product management", "Product Manager">>,
       <<"pm", "Product Manager">>, <<"cashier", "Cashier">>, <<"retail", "Cashier">>,
       <<"customer support", "Customer Support Specialist">>,
       <<"support specialist", "Customer Support Specialist">>,
       <<"customer service", "Customer Support Specialist">>, <<"hr manager", "HR Manager">>,
       <<"human resources", "HR Manager">>, <<"hr", "HR Manager">>,
       <<"devops", "DevOps Engineer">>, <<"dev ops", "DevOps Engineer">>,
       <<"qa", "Quality Assurance Engineer">>,
       <<"quality assurance", "Quality Assurance Engineer">>,
       <<"testing", "Quality Assurance Engineer">>,
       <<"financial analyst", "Financial Analyst">>, <<"finance", "Financial Analyst">>,
       <<"marketing", "Marketing Specialist">>, <<"sales", "Sales Representative">>,
       <<"content writer", "Content Writer">>, <<"writer", "Content Writer">>,
       <<"content", "Content Writer">> >>

\* the official title of the first key of the mapping that passes the test,
\* None when no key does
FirstTitle(passing) ==
    IF passing = {} THEN NoneRole
    ELSE RoleMapping[CHOOSE k \in passing : \A j \in passing : k <= j][2]

\* the characters of the class [a-zA-Z\s/] in a lower-cased query
RoleChars ==
    {"a", "b", "c", "d", "e", "f", "g", "h", "i", "j", "k", "l", "m", "n", "o", "p", "q",
     "r", "s", "t", "u", "v", "w", "x", "y", "z", " ", "/"}

\* whether the word w stands at position i of q
IsAt(q, i, w) == i >= 1 /\ i + Len(w) - 1 <= Len(q) /\ SubSeq(q, i, i + Len(w) - 1) = w

RECURSIVE RunLen(_, _, _)
\* the number of consecutive characters of the set from position p on
RunLen(q, p, chars) ==
    IF p <= Len(q) /\ SubSeq(q, p, p) \in chars THEN 1 + RunLen(q, p + 1, chars) ELSE 0

RECURSIVE LexLeq(_, _)
\* the order in which the regular-expression engine tries its matches
LexLeq(x, y) ==
    IF Len(x) = 0 THEN TRUE
    ELSE IF Head(x) # Head(y) THEN Head(x) < Head(y)
    ELSE LexLeq(Tail(x), Tail(y))

\* the match re.search returns: the one the engine tries first
FirstMatch(candidates) ==
    CHOOSE c \in candidates : \A d \in candidates : LexLeq(c.key, d.key)

\* (?:\?|$|role|position) at position j
EndsTarget(q, j) ==
    j = Len(q) + 1 \/ IsAt(q, j, "?") \/ IsAt(q, j, "role") \/ IsAt(q, j, "position")

\* the matches of  (?:alts)\s+(?:articles)?\s*([a-zA-Z\s/]+?)(?:\?|$|role|position):
\* leftmost start, alternatives in their order, \s+ and \s* greedy, the group
\* lazy; the pattern without (?:a|an)?\s* has articles = <<"">> and no star
TargetMatches(q, alts, articles, star) ==
    UNION { UNION { UNION { UNION {
        { [key |-> <<i, a, Len(q) - s, r, Len(q) - g, e>>, group |-> SubSeq(q, g, e)] :
            e \in {e \in g..(g + RunLen(q, g, RoleChars) - 1) : EndsTarget(q, e + 1)} } :
        g \in (s + Len(articles[r]))..
                 (s + Len(articles[r])
                    + (IF star THEN RunLen(q, s + Len(articles[r]), {" "}) ELSE 0)) } :
        r \in {r \in 1..Len(articles) : IsAt(q, s, articles[r]) \/ articles[r] = ""} } :
        s \in (i + Len(alts[a]) + 1)..(i + Len(alts[a]) + RunLen(q, i + Len(alts[a]), {" "})) } :
        <<i, a>> \in {ia \in (1..Len(q)) \X (1..Len(alts)) : IsAt(q, ia[1], alts[ia[2]])} }

\* target_patterns of _identify_role_fast
TargetPattern(q, p) ==
    IF p = 1 THEN TargetMatches(q, <<"to", "become", "switch to", "transition to", "move to">>,
                                <<"">>, FALSE)
    ELSE TargetMatches(q, <<"to", "become">>, <<"a", "an", "">>, TRUE)

\* the title a target pattern yields, None when it does not match or no key fits
TargetTitle(q, p) ==
    IF TargetPattern(q, p) = {} THEN NoneRole
    ELSE LET target_role == StrStrip(FirstMatch(TargetPattern(q, p)).group)
         IN  FirstTitle({k \in 1..Len(RoleMapping) :
                            StrHas(target_role, RoleMapping[k][1])
                            \/ StrHas(RoleMapping[k][1], target_role)})

\* FastPersonaPath._identify_role_fast
IdentifyRoleFast(normalized_query) ==
    LET direct == FirstTitle({k \in 1..Len(RoleMapping) :
                                 StrHas(normalized_query, RoleMapping[k][1])})
    IN  IF AnyWordIn(<<"transition", "switch", "move", "change", "become", "from">>,
                     normalized_query)
        THEN IF TargetTitle(normalized_query, 1) # NoneRole
             THEN TargetTitle(normalized_query, 1)
             ELSE IF TargetTitle(normalized_query, 2) # NoneRole
             THEN TargetTitle(normalized_query, 2)
             ELSE direct
        ELSE direct

\* the matches of  (?:from|current)\s+([a-zA-Z\s/]+?)\s+(?:to|become)
SourceMatches(q) ==
    LET alts == <<"from", "current">>
    IN  UNION { UNION {
        { [key |-> <<i, a, Len(q) - g, e>>, group |-> SubSeq(q, g, e)] :
            e \in {e \in g..(g + RunLen(q, g, RoleChars) - 1) :
                     \E k \in 1..RunLen(q, e + 1, {" "}) :
                        IsAt(q, e + 1 + k, "to") \/ IsAt(q, e + 1 + k, "become")} } :
        g \in (i + Len(alts[a]) + 1)..(i + Len(alts[a]) + RunLen(q, i + Len(alts[a]), {" "})) } :
        <<i, a>> \in {ia \in (1..Len(q)) \X (1..Len(alts)) : IsAt(q, ia[1], alts[ia[2]])} }

\* source_role of _generate_transition_response
SourceRole(normalized_query) ==
    IF SourceMatches(normalized_query) = {} THEN NoneRole
    ELSE LET source_text == StrStrip(FirstMatch(SourceMatches(normalized_query)).group)
         IN  FirstTitle({k \in 1..Len(RoleMapping) : StrHas(source_text, RoleMapping[k][1])})

\* the titles of the roles that are saved, in the order of ORDER BY title
AddedTitles == <<"Barista", "Cashier", "Data Analyst">>

TitleRank(title) == CHOOSE k \in 1..Len(AddedTitles) : AddedTitles[k] = title

\* DatabaseManager.get_all_job_roles: SELECT * FROM job_roles ORDER BY title;
\* the results it can return, rows of equal title in any order
GetAllJobRoles(tbl) ==
    {rows \in [1..Len(tbl) -> {tbl[i] : i \in 1..Len(tbl)}] :
        /\ \A i, j \in 1..Len(tbl) : i # j => rows[i].id # rows[j].id
        /\ \A i, j \in 1..Len(tbl) :
              i < j => TitleRank(rows[i].title) <= TitleRank(rows[j].title)}

NoCache == [set |-> FALSE, rows |-> <<>>]

\* as GetRolesCache, without the test of self._roles_cache
GetRolesCacheUnchecked(roles_cache, db_rows) ==
    [cache |-> [set |-> TRUE, rows |-> db_rows], read |-> 1]

\* FastPersonaPath._get_roles_cache: the cache afterwards, and the number of
\* calls of get_all_job_roles it made
GetRolesCache(roles_cache, db_rows) ==
    IF ~roles_cache.set
    THEN [cache |-> [set |-> TRUE, rows |-> db_rows], read |-> 1]
    ELSE [cache |-> roles_cache, read |-> 0]

\* title.lower() of the titles of the table and of the mapping
LowerTitle ==
    [title \in {AddedTitles[k] : k \in 1..Len(AddedTitles)}
                  \cup {RoleMapping[k][2] : k \in 1..Len(RoleMapping)} |-> StrLower(title)]

\* for role in roles: if role['title'].lower() == identified_role.lower(): ... break
FindRoleInfo(rows, identified_role) ==
    LET hits == {i \in 1..Len(rows) : LowerTitle[rows[i].title] = LowerTitle[identified_role]}
    IN  IF hits = {} THEN NoRole ELSE rows[CHOOSE i \in hits : \A j \in hits : i <= j]

\* for role in roles_cache: if role['title'] == source_role: ... break
FindSourceInfo(rows, source_role) ==
    LET hits == {i \in 1..Len(rows) : rows[i].title = source_role}
    IN  IF hits = {} THEN NoRole ELSE rows[CHOOSE i \in hits : \A j \in hits : i <= j]

\* the questions asked
FastQueries == {"What does a Cashier earn?", "Hello", " From cashier to Data Analyst "}

\* what answer_career_question computes from the query alone
QueryFacts ==
    [user_query \in FastQueries |->
        [identified_role |-> IdentifyRoleFast(NormalizeQuery(user_query)),
         generator |-> GenerateDetailedResponse(NormalizeQuery(user_query)),
         source_role |-> SourceRole(NormalizeQuery(user_query))]]

NoAnswer ==
    [op |-> "none", user_query |-> "", identified_role |-> NoneRole, role_info |-> NoRole,
     source_info |-> NoRole, generator |-> "", raised |-> FALSE, cache_was_set |-> FALSE,
     loaded_before |-> <<>>, table |-> <<>>]

InitFast ==
    /\ users = SeededUsers(1)
    /\ userSeq = Len(DefaultUsers) + 1
    /\ seed = [a \in Apps |-> [idx |-> Len(DefaultUsers) + 1, phase |-> "check"]]
    /\ chat = <<>>
    /\ chatSeq = 1
    /\ \E tbl \in {<<>>, SaveJobRole(SaveJobRole(<<>>, 1, "Cashier", 2), 2, "Data Analyst", 2)} :
         roles = tbl /\ roleSeq = Len(tbl) + 1
    /\ indexed = <<>>
    /\ loggedIn = {}
    /\ last = Idle
    /\ sk = NoSkill
    /\ mt = NoMentor
    /\ bfs = NoBfs
    /\ rag = NoRag
    /\ cls = NoCls
    /\ mentors = NoMentors
    /\ posts = NoPosts
    /\ plan = NoPlan
    /\ fast = [phase |-> "on", roles_cache |-> NoCache, reads |-> 0, since |-> "construction",
               loaded |-> <<>>, added |-> 0, result |-> NoAnswer]

fastFixed == <<users, userSeq, seed, indexed, loggedIn, last, sk, mt, bfs, rag, cls, mentors,
               posts, plan>>

\* FastPersonaPath.answer_career_question, the response up to the choice of the
\* generator; db_rows is what get_all_job_roles returns if it is called, db and
\* save tell whether the read of job_roles and save_chat_history succeed
AnswerCareerQuestion(user_query, db_rows, db, save) ==
    LET identified_role == QueryFacts[user_query].identified_role
        generator == QueryFacts[user_query].generator
        first == GetRolesCache(fast.roles_cache, db_rows)
        role_info == IF identified_role = NoneRole THEN NoRole
                     ELSE FindRoleInfo(first.cache.rows, identified_role)
        source_role == IF generator = "transition" /\ role_info # NoRole
                       THEN QueryFacts[user_query].source_role ELSE NoneRole
        second == IF source_role = NoneRole THEN [cache |-> first.cache, read |-> 0]
                  ELSE GetRolesCache(first.cache, db_rows)
        source_info == IF source_role = NoneRole THEN NoRole
                       ELSE FindSourceInfo(second.cache.rows, source_role)
        answer == [op |-> "answer", user_query |-> user_query,
                   identified_role |-> identified_role, role_info |-> role_info,
                   source_info |-> source_info, generator |-> generator, raised |-> FALSE,
                   cache_was_set |-> fast.roles_cache.set, loaded_before |-> fast.loaded,
                   table |-> roles]
    IN  /\ fast.phase = "on"
        /\ save = "ok" => chatSeq < MaxChatId
        /\ IF identified_role # NoneRole /\ ~fast.roles_cache.set /\ db = "raise"
           THEN \* get_all_job_roles raises and nothing catches it
                /\ fast' = [fast EXCEPT !.result =
                               [NoAnswer EXCEPT !.op = "answer", !.user_query = user_query,
                                                !.identified_role = identified_role,
                                                !.raised = TRUE, !.table = roles,
                                                !.loaded_before = fast.loaded]]
                /\ UNCHANGED <<chat, chatSeq>>
           ELSE /\ fast' = [fast EXCEPT
                               !.roles_cache = IF identified_role = NoneRole THEN @
                                               ELSE second.cache,
                               !.reads = IF identified_role = NoneRole THEN @
                                         ELSE @ + first.read + second.read,
                               !.loaded = IF identified_role # NoneRole
                                             /\ first.read + second.read > 0
                                          THEN roles ELSE @,
                               !.result = answer]
                /\ IF save = "ok"
                   THEN /\ chat' = Append(chat, ChatRow(chatSeq, 1, user_query, generator))
                        /\ chatSeq' = chatSeq + 1
                   ELSE UNCHANGED <<chat, chatSeq>>
        /\ UNCHANGED <<roles, roleSeq>>
        /\ UNCHANGED fastFixed

\* FastPersonaPath.refresh_cache
RefreshCache ==
    /\ fast.phase = "on"
    /\ fast' = [fast EXCEPT !.roles_cache = NoCache, !.reads = 0, !.since = "refresh",
                            !.result = [NoAnswer EXCEPT !.op = "refresh"]]
    /\ UNCHANGED <<chat, chatSeq, roles, roleSeq>>
    /\ UNCHANGED fastFixed

\* the HR dashboard saves a job role
HrAddsJobRole(title) ==
    /\ fast.phase = "on"
    /\ fast.added < MaxAdded
    /\ roles' = SaveJobRole(roles, roleSeq, title, 2)
    /\ roleSeq' = roleSeq + 1
    /\ fast' = [fast EXCEPT !.added = @ + 1]
    /\ UNCHANGED <<chat, chatSeq>>
    /\ UNCHANGED fastFixed

NextFast ==
    \/ \E user_query \in FastQueries, db_rows \in GetAllJobRoles(roles),
          db \in {"ok", "raise"}, save \in {"ok", "raise"} :
            AnswerCareerQuestion(user_query, db_rows, db, save)
    \/ RefreshCache
    \/ \E title \in {AddedTitles[k] : k \in 1..Len(AddedTitles)} : HrAddsJobRole(title)

SpecFast == InitFast /\ [][NextFast]_vars

\* the answer looked the role up in the cache
LookedUp ==
    /\ fast.phase = "on"
    /\ fast.result.op = "answer"
    /\ fast.result.identified_role # NoneRole
    /\ ~fast.result.raised

\* C20: between two refresh_cache calls (or construction and the first one)
\* get_all_job_roles returns at most once; the cache is the job_roles table as
\* it was at that read; an answer that finds the cache filled leaves it as it
\* is and takes the role from it, whatever the table holds by then; an answer
\* that finds it empty, after construction or after refresh_cache, reads the
\* table as it is at that moment
C20_ReadsOncePerRefresh ==
    fast.phase = "on" =>
        /\ fast.reads <= 1
        /\ fast.roles_cache.set <=> fast.reads = 1
        /\ fast.roles_cache.set => fast.roles_cache.rows \in GetAllJobRoles(fast.loaded)
        /\ LookedUp =>
              /\ fast.roles_cache.set
              /\ fast.result.role_info
                    = FindRoleInfo(fast.roles_cache.rows, fast.result.identified_role)
              /\ fast.result.cache_was_set => fast.loaded = fast.result.loaded_before
              /\ ~fast.result.cache_was_set => fast.loaded = fast.result.table

\* an answer from the snapshot: the table holds a Cashier role by now, the
\* answer about cashiers finds none
C20_Witness ==
    /\ LookedUp
    /\ fast.result.cache_was_set
    /\ fast.result.identified_role = "Cashier"
    /\ fast.result.role_info = NoRole
    /\ \E i \in 1..Len(fast.result.table) : fast.result.table[i].title = "Cashier"

\* after refresh_cache the next lookup finds the role saved in between
C20_WitnessRefreshed ==
    /\ LookedUp
    /\ fast.since = "refresh"
    /\ ~fast.result.cache_was_set
    /\ fast.result.role_info.title = "Cashier"
    /\ fast.result.loaded_before # fast.result.table

\* a transition answer looks the source role up as well, in the same snapshot
C20_WitnessSecondLookup ==
    /\ LookedUp
    /\ fast.result.generator = "transition"
    /\ fast.result.source_info.title = "Cashier"
    /\ fast.result.role_info.title = "Data Analyst"

(***************************************************************************)
(* PersonaPathRAG: the answer to a career question and its chat row.       *)
(***************************************************************************)
\* role_mappings of PersonaPathRAG._identify_role_in_query, in the order of the
\* dictionary
RagRoleMappings ==
    << <<"sde", "Software Developer">>, <<"software engineer", "Software Developer">>,
       <<"software development", "Software Developer">>,
       <<"software developer", "Software Developer">>, <<"developer", "Software Developer">>,
       <<"data science", "Data Scientist">>, <<"data scientist", "Data Scientist">>,
       <<"data analyst", "Data Analyst">>, <<"analyst", "Data Analyst">>,
       <<"ui/ux", "UI/UX Designer">>, <<"designer", "UI/UX Designer">>,
       <<"product manager", "Product Manager">>, <<"product management", "Product Manager">>,
       <<"pm", "Product Manager">>, <<"cashier", "Cashier">>,
       <<"customer support", "Customer Support Specialist">>,
       <<"support specialist", "Customer Support Specialist">>,
       <<"hr manager", "HR Manager">>, <<"human resources", "HR Manager">>,
       <<"devops", "DevOps Engineer">>, <<"qa", "Quality Assurance Engineer">>,
       <<"quality assurance", "Quality Assurance Engineer">>,
       <<"financial analyst", "Financial Analyst">>, <<"finance", "Financial Analyst">>,
       <<"marketing", "Marketing Specialist">>, <<"sales", "Sales Representative">>,
       <<"content writer", "Content Writer">>, <<"writer", "Content Writer">> >>

\* the official title of the first key of role_mappings that passes the test
RagFirstTitle(passing) ==
    IF passing = {} THEN NoneRole
    ELSE RagRoleMappings[CHOOSE k \in passing : \A j \in passing : k <= j][2]

\* for key, official_title in role_mappings.items():
\*     if key in role or role in key: return official_title
RagTitleFitting(role) ==
    RagFirstTitle({k \in 1..Len(RagRoleMappings) :
                      StrHas(role, RagRoleMappings[k][1]) \/ StrHas(RagRoleMappings[k][1], role)})

\* the characters of the class [a-zA-Z\s] in a lower-cased query
LetterChars == RoleChars \ {"/"}

\* the characters of the class [^to] in the queries asked
NotToChars == (RoleChars \cup {"?"}) \ {"t", "o"}

\* (?:terms|$) at position j
EndsGroup(q, j, terms) == j = Len(q) + 1 \/ \E t \in 1..Len(terms) : IsAt(q, j, terms[t])

\* the matches of  (?:alts)\s+(?:articles)?\s*([a-zA-Z\s]+?)(?:terms|$), tried as
\* TargetMatches tries them
RagTargetMatches(q, alts, articles, star, terms) ==
    UNION { UNION { UNION { UNION {
        { [key |-> <<i, a, Len(q) - s, r, Len(q) - g, e>>, group |-> SubSeq(q, g, e)] :
            e \in {e \in g..(g + RunLen(q, g, LetterChars) - 1) : EndsGroup(q, e + 1, terms)} } :
        g \in (s + Len(articles[r]))..
                 (s + Len(articles[r])
                    + (IF star THEN RunLen(q, s + Len(articles[r]), {" "}) ELSE 0)) } :
        r \in {r \in 1..Len(articles) : IsAt(q, s, articles[r]) \/ articles[r] = ""} } :
        s \in (i + Len(alts[a]) + 1)..(i + Len(alts[a]) + RunLen(q, i + Len(alts[a]), {" "})) } :
        <<i, a>> \in {ia \in (1..Len(q)) \X (1..Len(alts)) : IsAt(q, ia[1], alts[ia[2]])} }

\* the matches of  (?:from\s+[^to]+\s+to)\s+([a-zA-Z\s]+?)(?:\?|$|role|position):
\* between "from" and "to" stand a blank, characters other than t and o, and a
\* blank
RagFromToMatches(q) ==
    UNION { UNION {
        { [key |-> <<i, Len(q) - s, e>>, group |-> SubSeq(q, s, e)] :
            e \in {e \in s..(s + RunLen(q, s, LetterChars) - 1) :
                     EndsGroup(q, e + 1, <<"?", "role", "position">>)} } :
        s \in LET k == i + 4 + RunLen(q, i + 4, NotToChars)
              IN  IF /\ k - (i + 4) >= 3
                     /\ IsAt(q, i + 4, " ")
                     /\ IsAt(q, k - 1, " ")
                     /\ IsAt(q, k, "to")
                  THEN (k + 3)..(k + 2 + RunLen(q, k + 2, {" "}))
                  ELSE {} } :
        i \in {i \in 1..Len(q) : IsAt(q, i, "from")} }

\* target_patterns of _identify_role_in_query
RagTargetPattern(q, p) ==
    CASE p = 1 -> RagTargetMatches(q, <<"to", "become", "switch to", "transition to", "move to">>,
                                   <<"">>, FALSE, <<"?", "role", "position">>)
      [] p = 2 -> RagTargetMatches(q, <<"to", "become">>, <<"a", "an", "">>, TRUE,
                                   <<"?", "role", "position">>)
      [] OTHER -> RagFromToMatches(q)

\* the title a target pattern yields, None when it does not match or no key fits
RagTargetTitle(q, p) ==
    IF RagTargetPattern(q, p) = {} THEN NoneRole
    ELSE RagTitleFitting(StrStrip(FirstMatch(RagTargetPattern(q, p)).group))

\* the matches of  (?:from|current)\s+([a-zA-Z\s]+?)\s+(?:to|become)
RagSourceMatches(q) ==
    LET alts == <<"from", "current">>
    IN  UNION { UNION {
        { [key |-> <<i, a, Len(q) - g, e>>, group |-> SubSeq(q, g, e)] :
            e \in {e \in g..(g + RunLen(q, g, LetterChars) - 1) :
                     \E k \in 1..RunLen(q, e + 1, {" "}) :
                        IsAt(q, e + 1 + k, "to") \/ IsAt(q, e + 1 + k, "become")} } :
        g \in (i + Len(alts[a]) + 1)..(i + Len(alts[a]) + RunLen(q, i + Len(alts[a]), {" "})) } :
        <<i, a>> \in {ia \in (1..Len(q)) \X (1..Len(alts)) : IsAt(q, ia[1], alts[ia[2]])} }

\* the title of the source role, None when there is none
RagSourceTitle(q) ==
    IF RagSourceMatches(q) = {} THEN NoneRole
    ELSE RagTitleFitting(StrStrip(FirstMatch(RagSourceMatches(q)).group))

\* PersonaPathRAG._identify_role_in_query
IdentifyRoleInQuery(normalized_query) ==
    LET direct == RagFirstTitle({k \in 1..Len(RagRoleMappings) :
                                    StrHas(normalized_query, RagRoleMappings[k][1])})
    IN  IF AnyWordIn(<<"transition", "switch", "move", "change", "become">>, normalized_query)
        THEN IF RagTargetTitle(normalized_query, 1) # NoneRole
             THEN RagTargetTitle(normalized_query, 1)
             ELSE IF RagTargetTitle(normalized_query, 2) # NoneRole
             THEN RagTargetTitle(normalized_query, 2)
             ELSE IF RagTargetTitle(normalized_query, 3) # NoneRole
             THEN RagTargetTitle(normalized_query, 3)
             ELSE IF RagSourceTitle(normalized_query) # NoneRole
             THEN RagSourceTitle(normalized_query)
             ELSE direct
        ELSE direct

\* the matches of  (?:from|current)\s+([^to]+?)\s+(?:to|become)\s+([a-zA-Z\s]+?)(?:\?|$)
TransitionMatches(q) ==
    LET alts == <<"from", "current">>
        words == <<"to", "become">>
    IN  UNION { UNION { UNION { UNION { UNION {
        { [key |-> <<i, a, Len(q) - g, e, Len(q) - w, b, Len(q) - h, f>>,
           source |-> SubSeq(q, g, e), target |-> SubSeq(q, h, f)] :
            f \in {f \in h..(h + RunLen(q, h, LetterChars) - 1) : EndsGroup(q, f + 1, <<"?">>)} } :
        h \in (w + Len(words[b]) + 1)..(w + Len(words[b]) + RunLen(q, w + Len(words[b]), {" "})) } :
        <<w, b>> \in {wb \in ((e + 2)..(e + 1 + RunLen(q, e + 1, {" "}))) \X (1..Len(words)) :
                        IsAt(q, wb[1], words[wb[2]])} } :
        e \in g..(g + RunLen(q, g, NotToChars) - 1) } :
        g \in (i + Len(alts[a]) + 1)..(i + Len(alts[a]) + RunLen(q, i + Len(alts[a]), {" "})) } :
        <<i, a>> \in {ia \in (1..Len(q)) \X (1..Len(alts)) : IsAt(q, ia[1], alts[ia[2]])} }

\* source_role and target_role of PersonaPathRAG._generate_transition_response
TransitionRoles(normalized_query) ==
    IF TransitionMatches(normalized_query) # {}
    THEN LET m == FirstMatch(TransitionMatches(normalized_query))
         IN  [source_role |-> IdentifyRoleInQuery("role is " \o StrStrip(m.source)),
              target_role |-> IdentifyRoleInQuery("role is " \o StrStrip(m.target))]
    ELSE LET found == RagTargetMatches(normalized_query, <<"to", "become">>, <<"">>, FALSE,
                                       <<"?">>)
         IN  [source_role |-> NoneRole,
              target_role |-> IF found = {} THEN NoneRole
                              ELSE IdentifyRoleInQuery("role is "
                                                       \o StrStrip(FirstMatch(found).group))]


\* a job_roles row as this assistant reads it; salary tells whether salary_min
\* and salary_max hold numbers ("set") or NULL ("null")
PersonaRole(id, title, salary) == [id |-> id, title |-> title, salary |-> salary]

NoInfo == PersonaRole(0, "", "null")

\* DatabaseManager.search_role_by_title: WHERE LOWER(title) = role_title.lower().strip()
\* ORDER BY created_at DESC LIMIT 1
SearchRoleByTitle(tbl, role_title) ==
    LET hits == {i \in 1..Len(tbl) : StrLower(tbl[i].title) = StrStrip(StrLower(role_title))}
    IN  IF hits = {} THEN NoInfo ELSE tbl[CHOOSE i \in hits : \A j \in hits : j <= i]

\* PersonaPathRAG._generate_database_response: the f-strings of the salary
\* response and of the overview format salary_min and salary_max with ':,'
GenerateDatabaseResponse(response_type, role_info) ==
    IF response_type \in {"skills", "career_progression", "responsibilities"}
    THEN [raised |-> "", text |-> "database " \o response_type]
    ELSE IF role_info.salary = "null"
    THEN [raised |-> "TypeError", text |-> ""]
    ELSE [raised |-> "", text |-> "database " \o response_type]

\* PersonaPathRAG._generate_transition_response: the database manager has no
\* method get_role_by_title
GenerateTransitionResponse(transition_roles) ==
    IF transition_roles.source_role # NoneRole \/ transition_roles.target_role # NoneRole
    THEN [raised |-> "AttributeError", text |-> ""]
    ELSE [raised |-> "", text |-> "Career Transition Information"]

\* PersonaPathRAG._generate_precise_response with semantic_docs = []
PreciseResponse(response_type, transition_roles, database_info) ==
    IF response_type = "career_transition" THEN GenerateTransitionResponse(transition_roles)
    ELSE IF database_info # NoInfo THEN GenerateDatabaseResponse(response_type, database_info)
    ELSE [raised |-> "", text |-> "fallback"]

\* the questions asked
PersonaQueries ==
    { "What does a Cashier earn?", "Hello", " From cashier to Data Analyst ",
      "How do I change careers?", "Data Analyst skills" }

\* what answer_career_question computes from the query alone
PersonaFacts ==
    [user_query \in PersonaQueries |->
        [identified_role |-> IdentifyRoleInQuery(NormalizeQuery(user_query)),
         response_type |-> ClassifyQueryType(NormalizeQuery(user_query)),
         transition_roles |-> TransitionRoles(NormalizeQuery(user_query))]]

\* a chat_history row with its role_context
ContextRow(id, user_id, query, response, role_context) ==
    [id |-> id, user_id |-> user_id, query |-> query, response |-> response,
     role_context |-> role_context]

NoPersonaCall ==
    [phase |-> "persona", op |-> "none", user_query |-> "", user_id |-> 0, raised |-> "",
     response |-> "", identified_role |-> NoneRole, chat_before |-> <<>>, added |-> 0]

InitPersona ==
    /\ users = SeededUsers(1)
    /\ userSeq = Len(DefaultUsers) + 1
    /\ seed = [a \in Apps |-> [idx |-> Len(DefaultUsers) + 1, phase |-> "check"]]
    /\ chat = <<>>
    /\ chatSeq = 1
    /\ \E tbl \in {<<>>, <<PersonaRole(1, "Cashier", "set"), PersonaRole(2, "Data Analyst", "set")>>} :
         roles = tbl /\ roleSeq = Len(tbl) + 1
    /\ indexed = <<>>
    /\ loggedIn = {}
    /\ last = Idle
    /\ sk = NoSkill
    /\ mt = NoMentor
    /\ bfs = NoBfs
    /\ rag = NoRag
    /\ cls = NoPersonaCall
    /\ mentors = NoMentors
    /\ posts = NoPosts
    /\ plan = NoPlan
    /\ fast = NoFast

personaFixed == <<users, userSeq, seed, indexed, loggedIn, last, sk, mt, bfs, rag, mentors,
                  posts, plan, fast>>

\* PersonaPathRAG.answer_career_question
PersonaAnswerCareerQuestion(user_query, user_id) ==
    LET identified_role == PersonaFacts[user_query].identified_role
        database_info == IF identified_role = NoneRole THEN NoInfo
                         ELSE SearchRoleByTitle(roles, identified_role)
        response == PreciseResponse(PersonaFacts[user_query].response_type,
                                    PersonaFacts[user_query].transition_roles, database_info)
        role_context == IF identified_role = NoneRole THEN "General Career" ELSE identified_role
    IN  /\ cls.phase = "persona"
        /\ chatSeq <= MaxChatId
        /\ cls' = [cls EXCEPT !.op = "answer", !.user_query = user_query, !.user_id = user_id,
                              !.raised = response.raised, !.response = response.text,
                              !.identified_role = identified_role, !.chat_before = chat]
        /\ IF response.raised # ""
           THEN UNCHANGED <<chat, chatSeq>>
           ELSE /\ chat' = Append(chat, ContextRow(chatSeq, user_id, user_query, response.text,
                                                   role_context))
                /\ chatSeq' = chatSeq + 1
        /\ UNCHANGED <<roles, roleSeq>>
        /\ UNCHANGED personaFixed

\* the HR dashboard saves a job role: save_job_role names no salary columns
PersonaHrSavesRole(title) ==
    /\ cls.phase = "persona"
    /\ cls.added < MaxAdded
    /\ roles' = Append(roles, PersonaRole(roleSeq, title, "null"))
    /\ roleSeq' = roleSeq + 1
    /\ cls' = [cls EXCEPT !.added = @ + 1]
    /\ UNCHANGED <<chat, chatSeq>>
    /\ UNCHANGED personaFixed

NextPersona ==
    \/ \E user_query \in PersonaQueries, user_id \in {1, 3} :
          PersonaAnswerCareerQuestion(user_query, user_id)
    \/ \E title \in {"Cashier", "Data Analyst"} : PersonaHrSavesRole(title)

SpecPersona == InitPersona /\ [][NextPersona]_vars

\* C21: every call of PersonaPathRAG.answer_career_question returns a response
\* and has added exactly one chat_history row, whose role_context is the
\* identified role or "General Career"
C21_OneRowPerAnswer ==
    (cls.phase = "persona" /\ cls.op = "answer") =>
        /\ cls.raised = ""
        /\ chat = Append(cls.chat_before,
                         ContextRow(Len(cls.chat_before) + 1, cls.user_id, cls.user_query,
                                    cls.response,
                                    IF cls.identified_role = NoneRole THEN "General Career"
                                    ELSE cls.identified_role))

(***************************************************************************)
(* CareerPlanner._get_role_level on job titles.                            *)
(***************************************************************************)
MaxTitleWords == 2  \* words of a job title

\* the words the titles are made of
TitleWords ==
    {"Chief", "CTO", "VP", "Director", "Manager", "Lead", "Senior", "Sr", "Junior",
     "Associate", "Engineer", "Marketing"}

JobTitles == {StrJoin(ws, " ") : ws \in SeqsUpTo(TitleWords, MaxTitleWords)}

InitLevel ==
    /\ users = SeededUsers(1)
    /\ userSeq = Len(DefaultUsers) + 1
    /\ seed = [a \in Apps |-> [idx |-> Len(DefaultUsers) + 1, phase |-> "check"]]
    /\ chat = <<>>
    /\ chatSeq = 1
    /\ roles = <<>>
    /\ roleSeq = 1
    /\ indexed = <<>>
    /\ loggedIn = {}
    /\ last = Idle
    /\ sk = NoSkill
    /\ mt = NoMentor
    /\ bfs = NoBfs
    /\ rag = NoRag
    /\ cls = NoCls
    /\ mentors = NoMentors
    /\ posts = NoPosts
    /\ \E role \in JobTitles : plan = [phase |-> "level", role |-> role, done |-> FALSE, level |-> 0]
    /\ fast = NoFast

\* a call of _get_role_level
GetRoleLevelCall ==
    /\ plan.phase = "level"
    /\ ~plan.done
    /\ plan' = [plan EXCEPT !.done = TRUE, !.level = GetRoleLevel(plan.role)]
    /\ UNCHANGED <<users, userSeq, seed, chat, chatSeq, roles, roleSeq, indexed, loggedIn, last,
                   sk, mt, bfs, rag, cls, mentors, posts, fast>>

NextLevel == GetRoleLevelCall

SpecLevel == InitLevel /\ [][NextLevel]_vars

\* the seniority keywords, the highest rank first, each with its level
SeniorityKeywords ==
    << <<"chief", 7>>, <<"ceo", 7>>, <<"cto", 7>>, <<"cpo", 7>>, <<"vp", 6>>,
       <<"vice president", 6>>, <<"director", 5>>, <<"manager", 4>>, <<"lead", 4>>,
       <<"senior", 3>>, <<"sr", 3>>, <<"principal", 3>>, <<"associate", 1>>, <<"jr", 1>>,
       <<"junior", 1>> >>

\* the level of the highest-ranked seniority keyword the title contains, 2
\* when it contains none
HighestKeywordLevel(role_lower) ==
    LET found == {k \in 1..Len(SeniorityKeywords) : StrHas(role_lower, SeniorityKeywords[k][1])}
    IN  IF found = {} THEN 2
        ELSE SeniorityKeywords[CHOOSE k \in found : \A j \in found : k <= j][2]

\* the title names the word: it stands there as a word of its own
NamesWord(role_lower, w) ==
    \E i \in 1..Len(role_lower) :
        /\ IsAt(role_lower, i, w)
        /\ i = 1 \/ IsAt(role_lower, i - 1, " ")
        /\ i + Len(w) = Len(role_lower) + 1 \/ IsAt(role_lower, i + Len(w), " ")

\* the title names a chief-level or VP title
NamesExecutive(role_lower) ==
    \E k \in 1..6 : NamesWord(role_lower, SeniorityKeywords[k][1])

\* C22: _get_role_level returns the level of the highest-ranked seniority
\* keyword the title contains, a title that contains 'director' and names no
\* chief-level or VP title gets level 5, and the level is in 1..7
C22_LevelOfKeyword ==
    (plan.phase = "level" /\ plan.done) =>
        /\ plan.level = HighestKeywordLevel(StrLower(plan.role))
        /\ (StrHas(StrLower(plan.role), "director") /\ ~NamesExecutive(StrLower(plan.role)))
              => plan.level = 5
        /\ plan.level \in 1..7

(***************************************************************************)
(* Deleting chat history.                                                  *)
(***************************************************************************)
\* whether the sequence holds the row
HasRow(tbl, row) == \E i \in 1..Len(tbl) : tbl[i] = row

\* DatabaseManager.delete_chat_entry: DELETE FROM chat_history WHERE id = %s
DeleteChatEntry(tbl, chat_id) ==
    LET Kept(row) == row.id # chat_id
    IN  SelectSeq(tbl, Kept)

\* the tables other than chat_history
OtherTables == [users |-> users, roles |-> roles, mentors |-> mentors]

NoChatCall == [op |-> "none", arg |-> 0, raised |-> FALSE, prechat |-> <<>>, pre |-> <<>>]

InitChat ==
    /\ users = SeededUsers(1)
    /\ userSeq = Len(DefaultUsers) + 1
    /\ seed = [a \in Apps |-> [idx |-> Len(DefaultUsers) + 1, phase |-> "check"]]
    /\ chat = <<>>
    /\ chatSeq = 1
    /\ roles = RoleTable(1)
    /\ roleSeq = 2
    /\ indexed = <<>>
    /\ loggedIn = {}
    /\ last = NoChatCall
    /\ sk = NoSkill
    /\ mt = NoMentor
    /\ bfs = NoBfs
    /\ rag = NoRag
    /\ LaterOff

chatFixed == <<users, userSeq, seed, roles, roleSeq, indexed, loggedIn, sk, mt, bfs, rag, cls,
               mentors, posts, plan, fast>>

\* the users whose conversations are stored
ChatUsers == {users[i].id : i \in 1..Len(users)}

\* DatabaseManager.save_chat_history: INSERT INTO chat_history ..., commit
ChatSaveChatHistory(user_id) ==
    /\ last.op \in {"none", "save", "clear", "delete"}
    /\ chatSeq <= MaxChatId + 1
    /\ chat' = Append(chat, ChatRow(chatSeq, user_id, "Hello", "Career Guidance"))
    /\ chatSeq' = chatSeq + 1
    /\ last' = [NoChatCall EXCEPT !.op = "save", !.arg = user_id]
    /\ UNCHANGED chatFixed

\* DELETE /chat/history and the "Clear All History" button: clear_chat_history of
\* the signed-in user; db tells whether the database is reached
ChatClearChatHistory(user_id, db) ==
    /\ last.op \in {"none", "save", "clear", "delete"}
    /\ chat' = IF db = "ok" THEN DeleteChatOfUser(chat, user_id) ELSE chat
    /\ last' = [op |-> "clear", arg |-> user_id, raised |-> db # "ok", prechat |-> chat,
                pre |-> OtherTables]
    /\ UNCHANGED chatSeq
    /\ UNCHANGED chatFixed

\* the delete button of a conversation: delete_chat_entry
ChatDeleteChatEntry(chat_id, db) ==
    /\ last.op \in {"none", "save", "clear", "delete"}
    /\ chat' = IF db = "ok" THEN DeleteChatEntry(chat, chat_id) ELSE chat
    /\ last' = [op |-> "delete", arg |-> chat_id, raised |-> db # "ok", prechat |-> chat,
                pre |-> OtherTables]
    /\ UNCHANGED chatSeq
    /\ UNCHANGED chatFixed

NextChat ==
    \/ \E user_id \in ChatUsers : ChatSaveChatHistory(user_id)
    \/ \E user_id \in ChatUsers, db \in {"ok", "raise"} : ChatClearChatHistory(user_id, db)
    \/ \E chat_id \in 1..(MaxChatId + 2), db \in {"ok", "raise"} : ChatDeleteChatEntry(chat_id, db)

SpecChat == InitChat /\ [][NextChat]_vars

\* the rows of the table are those of before that pass the test, in their order
KeptRows(before, after, kept) ==
    /\ \A i \in 1..Len(after) : HasRow(before, after[i])
    /\ \A i \in 1..Len(before) : HasRow(after, before[i]) <=> before[i].id \in kept
    /\ \A i, j \in 1..Len(after) : i < j => after[i].id < after[j].id

\* C23: clear_chat_history(user_id) removes every chat_history row of that user
\* and no row of another user, delete_chat_entry(chat_id) removes the row with
\* that id and no other row, and neither changes another table
C23_DeletesOnlyItsRows ==
    /\ (last.op = "clear" /\ ~last.raised) =>
          /\ KeptRows(last.prechat, chat,
                      {last.prechat[i].id : i \in {j \in 1..Len(last.prechat) :
                                                     last.prechat[j].user_id # last.arg}})
          /\ OtherTables = last.pre
    /\ (last.op = "delete" /\ ~last.raised) =>
          /\ KeptRows(last.prechat, chat,
                      {last.prechat[i].id : i \in 1..Len(last.prechat)} \ {last.arg})
          /\ OtherTables = last.pre

\* a user's rows are cleared while another user's row stays
C23_Witness ==
    /\ last.op = "clear"
    /\ ~last.raised
    /\ \E i \in 1..Len(last.prechat) : last.prechat[i].user_id = last.arg
    /\ Len(chat) > 0
    /\ Len(chat) < Len(last.prechat)

\* one conversation of several is deleted
C23_WitnessEntry ==
    /\ last.op = "delete"
    /\ ~last.raised
    /\ Len(last.prechat) >= 2
    /\ Len(chat) = Len(last.prechat) - 1

(***************************************************************************)
(* Sessions of the Streamlit application and their dashboards.             *)
(***************************************************************************)
MaxSessions == 2    \* browser sessions signed in at the same time
MaxUpdates == 1     \* role changes made by administrators

\* as DashboardOf, with the Employee dashboard for every other role
DashboardOfOrEmployee(user_role) ==
    IF user_role = "HR Manager" THEN "HRDashboard"
    ELSE IF user_role = "Admin" THEN "AdminDashboard"
    ELSE "EmployeeDashboard"

\* show_dashboard, "Route to appropriate dashboard": the dashboard rendered
\* for st.session_state.user_role, "error" for the st.error branch
DashboardOf(user_role) ==
    IF user_role = "Employee" THEN "EmployeeDashboard"
    ELSE IF user_role = "HR Manager" THEN "HRDashboard"
    ELSE IF user_role = "Admin" THEN "AdminDashboard"
    ELSE "error"

\* UPDATE users SET role = new_role WHERE id = user_id
UpdateUserRole(tbl, user_id, new_role) ==
    [i \in 1..Len(tbl) |-> IF tbl[i].id = user_id THEN [tbl[i] EXCEPT !.role = new_role]
                           ELSE tbl[i]]

\* the role stored for the user, "" when the user has no row
StoredRole(tbl, user_id) ==
    IF \E i \in 1..Len(tbl) : tbl[i].id = user_id
    THEN tbl[CHOOSE i \in 1..Len(tbl) : tbl[i].id = user_id].role
    ELSE ""

\* st.session_state of a signed-in session
Session(user) == [user_id |-> user.id, username |-> user.username, user_role |-> user.role]

NoSession == [user_id |-> 0, username |-> "", user_role |-> ""]

NoRouting == [op |-> "none", session |-> NoSession, dashboard |-> "", stored |-> "",
              updates |-> 0]

InitRoute ==
    /\ users = SeededUsers(1)
    /\ userSeq = Len(DefaultUsers) + 1
    /\ seed = [a \in Apps |-> [idx |-> Len(DefaultUsers) + 1, phase |-> "check"]]
    /\ chat = <<>>
    /\ chatSeq = 1
    /\ roles = <<>>
    /\ roleSeq = 1
    /\ indexed = <<>>
    /\ loggedIn = {}
    /\ last = NoRouting
    /\ sk = NoSkill
    /\ mt = NoMentor
    /\ bfs = NoBfs
    /\ rag = NoRag
    /\ LaterOff

routeFixed == <<seed, chat, chatSeq, roles, roleSeq, indexed, sk, mt, bfs, rag, cls, mentors,
                posts, plan, fast>>

\* POST /auth/register: the role is the string of the request body
RouteRegister(username, password, role) ==
    /\ last.op \in {"none", "register", "sign_in", "update_role", "show_dashboard", "sign_out"}
    /\ userSeq <= MaxUserId
    /\ users' = RegisterUser(users, userSeq, username, password, role).users
    /\ userSeq' = userSeq + 1
    /\ last' = [last EXCEPT !.op = "register", !.session = NoSession, !.dashboard = "",
                            !.stored = ""]
    /\ UNCHANGED loggedIn
    /\ UNCHANGED routeFixed

\* the sign-in form of app.py: the session keeps the role of the row found
RouteSignIn(username, password) ==
    LET user == AuthenticateUser(users, username, password)
    IN  /\ last.op \in {"none", "register", "sign_in", "update_role", "show_dashboard",
                        "sign_out"}
        /\ user # NoUser
        /\ Cardinality(loggedIn \cup {Session(user)}) <= MaxSessions
        /\ loggedIn' = loggedIn \cup {Session(user)}
        /\ last' = [last EXCEPT !.op = "sign_in", !.session = Session(user), !.dashboard = "",
                                !.stored = ""]
        /\ UNCHANGED <<users, userSeq>>
        /\ UNCHANGED routeFixed

\* AdminDashboard._update_user_role from the user table of an Admin session;
\* the roles offered are those some user has; an exception is shown, not raised
RouteUpdateUserRole(user_id, new_role, db) ==
    /\ last.op \in {"none", "register", "sign_in", "update_role", "show_dashboard", "sign_out"}
    /\ \E s \in loggedIn : DashboardOf(s.user_role) = "AdminDashboard"
    /\ \E i \in 1..Len(users) : users[i].id = user_id
    /\ \E i \in 1..Len(users) : users[i].role = new_role
    /\ last.updates < MaxUpdates
    /\ users' = IF db = "ok" THEN UpdateUserRole(users, user_id, new_role) ELSE users
    /\ last' = [last EXCEPT !.op = "update_role", !.session = NoSession, !.dashboard = "",
                            !.stored = "", !.updates = @ + 1]
    /\ UNCHANGED <<userSeq, loggedIn>>
    /\ UNCHANGED routeFixed

\* show_dashboard for an authenticated session
ShowDashboard(session) ==
    /\ last.op \in {"none", "register", "sign_in", "update_role", "show_dashboard", "sign_out"}
    /\ session \in loggedIn
    /\ last' = [last EXCEPT !.op = "show_dashboard", !.session = session,
                            !.dashboard = DashboardOf(session.user_role),
                            !.stored = StoredRole(users, session.user_id)]
    /\ UNCHANGED <<users, userSeq, loggedIn>>
    /\ UNCHANGED routeFixed

\* the Sign Out button
RouteSignOut(session) ==
    /\ last.op \in {"none", "register", "sign_in", "update_role", "show_dashboard", "sign_out"}
    /\ session \in loggedIn
    /\ loggedIn' = loggedIn \ {session}
    /\ last' = [last EXCEPT !.op = "sign_out", !.session = session, !.dashboard = "",
                            !.stored = ""]
    /\ UNCHANGED <<users, userSeq>>
    /\ UNCHANGED routeFixed

NextRoute ==
    \/ \E username \in {"alice"}, password \in {"secret"}, role \in {"Employee", "Guest"} :
          RouteRegister(username, password, role)
    \/ \E username \in {"admin", "alice", "employee"}, password \in {"admin123", "secret", "emp123"} :
          RouteSignIn(username, password)
    \/ \E user_id \in 1..MaxUserId, new_role \in {"Employee", "HR Manager", "Admin", "Guest"},
          db \in {"ok", "raise"} : RouteUpdateUserRole(user_id, new_role, db)
    \/ \E session \in loggedIn : ShowDashboard(session)
    \/ \E session \in loggedIn : RouteSignOut(session)

SpecRoute == InitRoute /\ [][NextRoute]_vars

ThreeDashboards == {"EmployeeDashboard", "HRDashboard", "AdminDashboard"}

\* C24 as stated: every authenticated session is routed to exactly one of
\* the three dashboards, the one of the role stored for its user
C24_RoutedByStoredRole ==
    last.op = "show_dashboard" =>
        /\ last.dashboard \in ThreeDashboards
        /\ last.dashboard = DashboardOf(last.stored)

\* C24: every authenticated session is routed by the role it read when it
\* signed in: to the dashboard of that role when it is "Employee",
\* "HR Manager" or "Admin", and to no dashboard otherwise
C24_RoutedBySessionRole ==
    last.op = "show_dashboard" =>
        /\ last.session.user_role = "Employee" => last.dashboard = "EmployeeDashboard"
        /\ last.session.user_role = "HR Manager" => last.dashboard = "HRDashboard"
        /\ last.session.user_role = "Admin" => last.dashboard = "AdminDashboard"
        /\ last.session.user_role \notin {"Employee", "HR Manager", "Admin"}
              => last.dashboard \notin ThreeDashboards

\* a user registered through the API with another role signs in
C24_Witness ==
    /\ last.op = "show_dashboard"
    /\ last.session.username = "alice"
    /\ last.session.user_role = "Guest"
    /\ last.dashboard = "error"

\* a session signed in before an administrator changed the role of its user
C24_WitnessChanged ==
    /\ last.op = "show_dashboard"
    /\ last.stored # last.session.user_role
    /\ last.dashboard \in ThreeDashboards

\* a user registered through the API with one of the three roles
C24_WitnessRegistered ==
    /\ last.op = "show_dashboard"
    /\ last.session.username = "alice"
    /\ last.dashboard = "EmployeeDashboard"

=============================================================================
